---- MODULE Spec2Model ----
(***************************************************************************)
(* Model of the multi-provider AI completion layer of Miktos:              *)
(* the OpenAI, Anthropic and Google adapters (generate, generateStream,    *)
(* formatMessages, countTokens, calculateCost).                            *)
(*                                                                         *)
(* JavaScript strings are modelled as sequences of one-character strings,  *)
(* so that length, substring, concatenation, toLowerCase and includes are  *)
(* computed as the code computes them.  An optional value is the empty     *)
(* sequence (absent) or a one-element sequence (present).                  *)
(***************************************************************************)
EXTENDS Integers, Sequences, FiniteSets, TLC

(***************************************************************************)
(* Bounds of the model.                                                    *)
(***************************************************************************)
\* longest output text the simulated Google backend returns
MaxTextLen == 21
\* most items a simulated OpenAI / Anthropic stream yields before it ends
MaxStreamItems == 3

\* the milliseconds the clock may advance by itself during one generateStream call
MaxClock == 1
\* most messages of a prompt given to formatMessages
MaxMessages == 3
\* most blocks of a content given to getTextFromContentBlocks
MaxBlocks == 2
\* ModelServiceImplementation.generate: substring(0, 50) of the last message
MockPromptLen == 50
\* CacheService: DEFAULT_TTL, MAX_KEY_LENGTH, COMPRESSION_THRESHOLD
DEFAULT_TTL == 3600
MAX_KEY_LENGTH == 250
COMPRESSION_THRESHOLD == 1024
\* most get calls between two resets of the statistics
MaxGets == 2
\* most sendEmail calls, and most calls of EmailService.init
MaxEmails == 2
MaxInits == 2

(***************************************************************************)
(* Strings.                                                                *)
(***************************************************************************)
None == <<>>

Some(x) == <<x>>

\* String.prototype.toLowerCase, one character
LowerChar(c) ==
    CASE c = "A" -> "a" [] c = "B" -> "b" [] c = "C" -> "c" [] c = "D" -> "d" [] c = "E" -> "e"
      [] c = "F" -> "f" [] c = "G" -> "g" [] c = "H" -> "h" [] c = "I" -> "i" [] c = "J" -> "j"
      [] c = "K" -> "k" [] c = "L" -> "l" [] c = "M" -> "m" [] c = "N" -> "n" [] c = "O" -> "o"
      [] c = "P" -> "p" [] c = "Q" -> "q" [] c = "R" -> "r" [] c = "S" -> "s" [] c = "T" -> "t"
      [] c = "U" -> "u" [] c = "V" -> "v" [] c = "W" -> "w" [] c = "X" -> "x" [] c = "Y" -> "y"
      [] c = "Z" -> "z"
      [] OTHER -> c

toLowerCase(s) == [i \in 1..Len(s) |-> LowerChar(s[i])]

\* String.prototype.includes
includes(s, sub) ==
    \E i \in 0..(Len(s) - Len(sub)) : SubSeq(s, i + 1, i + Len(sub)) = sub

\* String.prototype.substring(from, to) for 0 <= from <= to (0-based, to exclusive,
\* clamped to the length of the string)
substring(s, from, to) ==
    SubSeq(s, from + 1, IF to < Len(s) THEN to ELSE Len(s))

RECURSIVE join(_, _)
\* Array.prototype.join(sep)
join(parts, sep) ==
    IF Len(parts) = 0 THEN <<>>
    ELSE IF Len(parts) = 1 THEN parts[1]
    ELSE parts[1] \o sep \o join(Tail(parts), sep)

RECURSIVE SumSeq(_)
SumSeq(ns) == IF Len(ns) = 0 THEN 0 ELSE ns[1] + SumSeq(Tail(ns))

\* Array.prototype.filter(Boolean) on an array of strings
RECURSIVE filterBoolean(_)
filterBoolean(parts) ==
    IF Len(parts) = 0 THEN <<>>
    ELSE IF Len(parts[1]) = 0 THEN filterBoolean(Tail(parts))
    ELSE <<parts[1]>> \o filterBoolean(Tail(parts))

NL == <<"\n">>

\* the backquote character, kept as one atom of a text
Backquote == "BACKQUOTE"

\* the fence of a code block: three backquotes
Fence == <<Backquote, Backquote, Backquote>>

quota ==
    <<"q","u","o","t","a">>

rate ==
    <<"r","a","t","e">>

limit ==
    <<"l","i","m","i","t">>

GoogleApiErrorPrefix ==
    <<"G","o","o","g","l","e"," ","A","I"," ","A","P","I"," ","E","r","r","o","r",":"," ">>

MaxRetryText ==
    <<"M","a","x","i","m","u","m"," ","r","e","t","r","y"," ","l","i","m","i","t"," ","r","e","a","c","h","e","d">>

GoogleStreamingErrorPrefix ==
    <<"G","o","o","g","l","e"," ","A","I"," ","S","t","r","e","a","m","i","n","g"," ","E","r","r","o","r",":"," ">>

OpenAIApiErrorPrefix ==
    <<"O","p","e","n","A","I"," ","A","P","I"," ","E","r","r","o","r",":"," ">>

OpenAIStreamingErrorPrefix ==
    <<"O","p","e","n","A","I"," ","S","t","r","e","a","m","i","n","g"," ","E","r","r","o","r",":"," ">>

AnthropicApiErrorPrefix ==
    <<"A","n","t","h","r","o","p","i","c"," ","A","P","I"," ","E","r","r","o","r",":"," ">>

AnthropicStreamingErrorPrefix ==
    <<"A","n","t","h","r","o","p","i","c"," ","S","t","r","e","a","m","i","n","g"," ","E","r","r","o","r",":"," ">>

(***************************************************************************)
(* Values of the shared enumerations and constants (miktos-shared).        *)
(***************************************************************************)
ContentBlockType_TEXT ==
    <<"t","e","x","t">>

ContentBlockType_CODE ==
    <<"c","o","d","e">>

ContentBlockType_TOOL_USE ==
    <<"t","o","o","l","_","u","s","e">>

ContentBlockType_TOOL_RESULT ==
    <<"t","o","o","l","_","r","e","s","u","l","t">>

ContentBlockType_IMAGE ==
    <<"i","m","a","g","e">>

MessageRole_SYSTEM == "system"

MessageRole_USER == "user"

MessageRole_ASSISTANT == "assistant"

MessageRole_TOOL == "tool"

MODEL_IDS_GPT_4 ==
    <<"g","p","t","-","4">>

MODEL_IDS_GPT_4_TURBO ==
    <<"g","p","t","-","4","-","t","u","r","b","o">>

MODEL_IDS_GPT_3_5_TURBO ==
    <<"g","p","t","-","3",".","5","-","t","u","r","b","o">>

MODEL_IDS_CLAUDE_3_OPUS ==
    <<"c","l","a","u","d","e","-","3","-","o","p","u","s">>

MODEL_IDS_CLAUDE_3_SONNET ==
    <<"c","l","a","u","d","e","-","3","-","s","o","n","n","e","t">>

MODEL_IDS_CLAUDE_3_HAIKU ==
    <<"c","l","a","u","d","e","-","3","-","h","a","i","k","u">>

MODEL_IDS_GEMINI_PRO ==
    <<"g","e","m","i","n","i","-","p","r","o">>

MODEL_IDS_GEMINI_ULTRA ==
    <<"g","e","m","i","n","i","-","u","l","t","r","a">>

(***************************************************************************)
(* Content blocks and their rendering as text.                             *)
(* A block is a record; a field the block does not carry is the empty      *)
(* string, which JavaScript's truthiness test treats like a missing field. *)
(* result is an optional: None is undefined, Some(s) is the string s.      *)
(***************************************************************************)
Block(type, text, code, language, toolName, result, caption) ==
    [type |-> type, text |-> text, code |-> code, language |-> language,
     toolName |-> toolName, result |-> result, caption |-> caption]

\* JSON.stringify inside a template literal: undefined prints as "undefined",
\* a string prints between double quotes (the model's strings need no escaping)
JSONstringify(result) ==
    IF result = None THEN <<"u","n","d","e","f","i","n","e","d">>
    ELSE <<"\"">> \o result[1] \o <<"\"">>

\* the text one block renders as; the if-chain is the same in the three adapters
OpenAIBlockText(block) ==
    IF block.type = ContentBlockType_TEXT /\ block.text # <<>> THEN block.text
    ELSE IF block.type = ContentBlockType_CODE /\ block.code # <<>>
      THEN Fence \o block.language \o NL \o block.code \o NL \o Fence
    ELSE IF block.type = ContentBlockType_TOOL_USE /\ block.toolName # <<>>
      THEN <<"[","T","o","o","l"," ","u","s","e",":"," ">> \o block.toolName \o <<"]">>
    ELSE IF block.type = ContentBlockType_TOOL_RESULT
      THEN <<"[","T","o","o","l"," ","r","e","s","u","l","t",":"," ">>
             \o JSONstringify(block.result) \o <<"]">>
    ELSE IF block.type = ContentBlockType_IMAGE /\ block.caption # <<>>
      THEN <<"[","I","m","a","g","e",":"," ">> \o block.caption \o <<"]">>
    ELSE <<"[">> \o (IF block.type # <<>> THEN block.type
                      ELSE <<"u","n","k","n","o","w","n">>)
           \o <<" ","c","o","n","t","e","n","t","]">>

\* a variant of AnthropicBlockText: an empty text renders as itself
AnthropicBlockTextRaw(block) ==
    IF block.type = ContentBlockType_TEXT THEN block.text ELSE OpenAIBlockText(block)

AnthropicBlockText(block) ==
    IF block.type = ContentBlockType_TEXT /\ block.text # <<>> THEN block.text
    ELSE IF block.type = ContentBlockType_CODE /\ block.code # <<>>
      THEN Fence \o block.language \o NL \o block.code \o NL \o Fence
    ELSE IF block.type = ContentBlockType_TOOL_USE /\ block.toolName # <<>>
      THEN <<"[","T","o","o","l"," ","u","s","e",":"," ">> \o block.toolName \o <<"]">>
    ELSE IF block.type = ContentBlockType_TOOL_RESULT
      THEN <<"[","T","o","o","l"," ","r","e","s","u","l","t",":"," ">>
             \o JSONstringify(block.result) \o <<"]">>
    ELSE IF block.type = ContentBlockType_IMAGE /\ block.caption # <<>>
      THEN <<"[","I","m","a","g","e",":"," ">> \o block.caption \o <<"]">>
    ELSE <<"[">> \o (IF block.type # <<>> THEN block.type
                      ELSE <<"u","n","k","n","o","w","n">>)
           \o <<" ","c","o","n","t","e","n","t","]">>

GoogleBlockText(block) ==
    IF block.type = ContentBlockType_TEXT /\ block.text # <<>> THEN block.text
    ELSE IF block.type = ContentBlockType_CODE /\ block.code # <<>>
      THEN Fence \o block.language \o NL \o block.code \o NL \o Fence
    ELSE IF block.type = ContentBlockType_TOOL_USE /\ block.toolName # <<>>
      THEN <<"[","T","o","o","l"," ","u","s","e",":"," ">> \o block.toolName \o <<"]">>
    ELSE IF block.type = ContentBlockType_TOOL_RESULT
      THEN <<"[","T","o","o","l"," ","r","e","s","u","l","t",":"," ">>
             \o JSONstringify(block.result) \o <<"]">>
    ELSE IF block.type = ContentBlockType_IMAGE /\ block.caption # <<>>
      THEN <<"[","I","m","a","g","e",":"," ">> \o block.caption \o <<"]">>
    ELSE <<"[">> \o (IF block.type # <<>> THEN block.type
                      ELSE <<"u","n","k","n","o","w","n">>)
           \o <<" ","c","o","n","t","e","n","t","]">>

\* getTextFromContentBlocks on an array of blocks: map, then join('\n')
OpenAIGetTextFromContentBlocks(blocks) ==
    join([i \in 1..Len(blocks) |-> OpenAIBlockText(blocks[i])], NL)

AnthropicGetTextFromContentBlocks(blocks) ==
    join([i \in 1..Len(blocks) |-> AnthropicBlockText(blocks[i])], NL)

GoogleGetTextFromContentBlocks(blocks) ==
    join([i \in 1..Len(blocks) |-> GoogleBlockText(blocks[i])], NL)

(***************************************************************************)
(* countTokens: Math.ceil(length / 4), and Math.ceil(length / 4.5) for     *)
(* Anthropic (4.5 = 9/2, so the quotient is 2 * length / 9).               *)
(***************************************************************************)
OpenAICountTokens(text) == (Len(text) + 3) \div 4

\* a variant of AnthropicCountTokens: the divisor of the other adapters
AnthropicCountTokensQuarter(text) == (Len(text) + 3) \div 4

AnthropicCountTokens(text) == (2 * Len(text) + 8) \div 9

\* a variant of GoogleCountTokens: the quotient is rounded down
GoogleCountTokensFloor(text) == Len(text) \div 4

GoogleCountTokens(text) == (Len(text) + 3) \div 4

(***************************************************************************)
(* calculateCost.  Prices are USD per 1000 tokens; the model keeps them in *)
(* units of 10^-5 USD, so a cost is an integer number of 10^-8 USD:        *)
(* (tokens / 1000) * price = tokens * price_e5 * 10^-8.                    *)
(***************************************************************************)
OpenAICosts(modelId) ==
    IF modelId = MODEL_IDS_GPT_4 THEN Some([input |-> 3000, output |-> 6000])
    ELSE IF modelId = MODEL_IDS_GPT_4_TURBO THEN Some([input |-> 1000, output |-> 3000])
    ELSE IF modelId = MODEL_IDS_GPT_3_5_TURBO THEN Some([input |-> 150, output |-> 200])
    ELSE None

\* a variant of OpenAICalculateCost: a model that has no price costs nothing
OpenAICalculateCostNoFallback(modelId, promptTokens, completionTokens) ==
    IF OpenAICosts(modelId) = None THEN 0
    ELSE promptTokens * OpenAICosts(modelId)[1].input
         + completionTokens * OpenAICosts(modelId)[1].output

OpenAICalculateCost(modelId, promptTokens, completionTokens) ==
    LET modelCost == IF OpenAICosts(modelId) # None THEN OpenAICosts(modelId)[1]
                     ELSE OpenAICosts(MODEL_IDS_GPT_3_5_TURBO)[1]
        inputCost == promptTokens * modelCost.input
        outputCost == completionTokens * modelCost.output
    IN  inputCost + outputCost

AnthropicCosts(modelId) ==
    IF modelId = MODEL_IDS_CLAUDE_3_OPUS THEN Some([input |-> 1500, output |-> 7500])
    ELSE IF modelId = MODEL_IDS_CLAUDE_3_SONNET THEN Some([input |-> 300, output |-> 1500])
    ELSE IF modelId = MODEL_IDS_CLAUDE_3_HAIKU THEN Some([input |-> 25, output |-> 125])
    ELSE None

AnthropicCalculateCost(modelId, promptTokens, completionTokens) ==
    LET modelCost == IF AnthropicCosts(modelId) # None THEN AnthropicCosts(modelId)[1]
                     ELSE AnthropicCosts(MODEL_IDS_CLAUDE_3_HAIKU)[1]
        inputCost == promptTokens * modelCost.input
        outputCost == completionTokens * modelCost.output
    IN  inputCost + outputCost

GoogleCosts(modelId) ==
    IF modelId = MODEL_IDS_GEMINI_PRO THEN Some([input |-> 125, output |-> 375])
    ELSE IF modelId = MODEL_IDS_GEMINI_ULTRA THEN Some([input |-> 375, output |-> 1125])
    ELSE None

GoogleCalculateCost(modelId, promptTokens, completionTokens) ==
    LET modelCost == IF GoogleCosts(modelId) # None THEN GoogleCosts(modelId)[1]
                     ELSE GoogleCosts(MODEL_IDS_GEMINI_PRO)[1]
        inputCost == promptTokens * modelCost.input
        outputCost == completionTokens * modelCost.output
    IN  inputCost + outputCost

Usage(promptTokens, completionTokens, totalTokens, estimatedCost) ==
    [promptTokens |-> promptTokens, completionTokens |-> completionTokens,
     totalTokens |-> totalTokens, estimatedCost |-> estimatedCost]

(***************************************************************************)
(* formatMessages.  A Message is [role, content, toolCallId]; a native     *)
(* message is [role, content, tool_call_id] (tool_call_id empty when the   *)
(* native message has none).                                               *)
(***************************************************************************)
Message(role, content, toolCallId) ==
    [role |-> role, content |-> content, toolCallId |-> toolCallId]

Native(role, content, tool_call_id) ==
    [role |-> role, content |-> content, tool_call_id |-> tool_call_id]

RECURSIVE OpenAIFormatLoop(_)
\* the for-loop of OpenAIProvider.formatMessages: a message of a role outside
\* the four branches pushes nothing
OpenAIFormatLoop(messages) ==
    IF Len(messages) = 0 THEN <<>>
    ELSE LET message == messages[1]
             contentText == OpenAIGetTextFromContentBlocks(message.content)
             pushed ==
               IF message.role = MessageRole_SYSTEM
                 THEN <<Native("system", contentText, <<>>)>>
               ELSE IF message.role = MessageRole_USER
                 THEN <<Native("user", contentText, <<>>)>>
               ELSE IF message.role = MessageRole_ASSISTANT
                 THEN <<Native("assistant", contentText, <<>>)>>
               ELSE IF message.role = MessageRole_TOOL
                 THEN <<Native("tool", contentText,
                               IF message.toolCallId # <<>> THEN message.toolCallId
                               ELSE <<"p","l","a","c","e","h","o","l","d","e","r","-",
                                      "t","o","o","l","-","c","a","l","l","-","i","d">>)>>
               ELSE <<>>
         IN  pushed \o OpenAIFormatLoop(Tail(messages))

\* systemPrompt is an optional string; an empty systemPrompt is falsy
OpenAIFormatMessages(messages, systemPrompt) ==
    (IF systemPrompt # None /\ systemPrompt[1] # <<>>
       THEN <<Native("system", systemPrompt[1], <<>>)>> ELSE <<>>)
    \o OpenAIFormatLoop(messages)

RECURSIVE AnthropicFormatMessages(_, _)
\* map to a native message or null, then filter(Boolean)
AnthropicFormatMessages(messages, systemPrompt) ==
    IF Len(messages) = 0 THEN <<>>
    ELSE LET message == messages[1]
             contentText == AnthropicGetTextFromContentBlocks(message.content)
             kept ==
               IF message.role = MessageRole_USER \/ message.role = MessageRole_ASSISTANT
                 THEN <<Native(IF message.role = MessageRole_USER THEN "user"
                               ELSE "assistant", contentText, <<>>)>>
               ELSE <<>>
         IN  kept \o AnthropicFormatMessages(Tail(messages), systemPrompt)

mapRoleToAuthor(role) ==
    CASE role = MessageRole_USER -> "user"
      [] role = MessageRole_ASSISTANT -> "model"
      [] role = MessageRole_SYSTEM -> "system"
      [] role = MessageRole_TOOL -> "user"
      [] OTHER -> "user"

\* Google's native message is [content, author]
GoogleFormatMessages(messages, systemPrompt) ==
    [i \in 1..Len(messages) |->
        [content |-> GoogleGetTextFromContentBlocks(messages[i].content),
         author |-> mapRoleToAuthor(messages[i].role)]]

\* AnthropicProvider.extractTextFromContent: the text of each block that has a
\* text field ('' for the others), empty strings filtered out, joined by '\n'.
\* A response block is [type, text] with text an optional string.
extractTextFromContent(content) ==
    join(filterBoolean([i \in 1..Len(content) |->
            IF content[i].text # None THEN content[i].text[1] ELSE <<>>]), NL)

(***************************************************************************)
(* The requests and the backend behaviours the model draws from.           *)
(***************************************************************************)
UnknownModelId ==
    <<"u","n","k","n","o","w","n","-","m","o","d","e","l","-","x">>

PromptHello ==
    <<"H","i"," ","t","h","e","r","e">>

SystemBrief ==
    <<"B","e"," ","b","r","i","e","f">>

TextBlock(text) == Block(ContentBlockType_TEXT, text, <<>>, <<>>, <<>>, None, <<>>)

CodeBlock(code, language) ==
    Block(ContentBlockType_CODE, <<>>, code, language, <<>>, None, <<>>)

ToolResultBlock(result) ==
    Block(ContentBlockType_TOOL_RESULT, <<>>, <<>>, <<>>, <<>>, result, <<>>)

SampleMessages ==
    << Message(MessageRole_SYSTEM, <<TextBlock(<<"R","u","l","e","s">>)>>, <<>>),
       Message(MessageRole_USER,
               <<TextBlock(<<"H","e","l","l","o">>), CodeBlock(<<"x","=","1">>, <<"p","y">>)>>,
               <<>>),
       Message(MessageRole_TOOL, <<ToolResultBlock(Some(<<"o","k">>))>>, <<"c","1">>) >>

\* prompt is a single string or an array of messages
StringPrompt(text) == [isArray |-> FALSE, text |-> text, messages |-> <<>>]

ArrayPrompt(msgs) == [isArray |-> TRUE, text |-> <<>>, messages |-> msgs]

Request(modelId, prompt, systemPrompt) ==
    [modelId |-> modelId, prompt |-> prompt, systemPrompt |-> systemPrompt]

Providers == {"openai", "anthropic", "google"}

DefaultModel(p) ==
    CASE p = "openai" -> MODEL_IDS_GPT_3_5_TURBO
      [] p = "anthropic" -> MODEL_IDS_CLAUDE_3_HAIKU
      [] OTHER -> MODEL_IDS_GEMINI_PRO

PremiumModel(p) ==
    CASE p = "openai" -> MODEL_IDS_GPT_4
      [] p = "anthropic" -> MODEL_IDS_CLAUDE_3_OPUS
      [] OTHER -> MODEL_IDS_GEMINI_ULTRA

Requests(p) ==
    { Request(DefaultModel(p), StringPrompt(PromptHello), None),
      Request(UnknownModelId, StringPrompt(PromptHello), Some(SystemBrief)),
      Request(PremiumModel(p), ArrayPrompt(SampleMessages), None) }

\* error texts a backend call throws: three rate-limit-flavored, one not
ErrQuota ==
    <<"Q","U","O","T","A"," ","e","x","c","e","e","d","e","d">>

ErrRate ==
    <<"R","a","t","e"," ","t","o","o"," ","h","i","g","h">>

ErrLimit ==
    <<"L","i","m","i","t"," ","h","i","t">>

ErrAuth ==
    <<"D","e","n","i","e","d">>

ErrorTexts == {ErrQuota, ErrRate, ErrLimit, ErrAuth}

\* the error a throwing onChunk raises
SinkErrorText ==
    <<"s","i","n","k">>

\* an output text of n characters
Text(n) == [i \in 1..n |-> <<"a", "b", "c">>[((i - 1) % 3) + 1]]

\* response[0]?.candidates?.[0]?.content of the Google backend: absent, or a text
GoogleContents == {None} \cup {Some(Text(n)) : n \in 0..MaxTextLen}

OpenAIResponses ==
    [content : {None, Some(<<>>), Some(Text(2))},
     usage : {None,
              Some([prompt_tokens |-> 5, completion_tokens |-> 2, total_tokens |-> 7]),
              Some([prompt_tokens |-> 5, completion_tokens |-> 2, total_tokens |-> 9])}]

AnthropicTextBlock(text) == [type |-> "text", text |-> Some(text)]

AnthropicResponses ==
    [content : {<<>>,
                <<AnthropicTextBlock(Text(2))>>,
                <<AnthropicTextBlock(Text(1)), [type |-> "tool_use", text |-> None],
                  AnthropicTextBlock(<<>>), AnthropicTextBlock(Text(2))>>},
     usage : {None, Some([input_tokens |-> 5, output_tokens |-> 2])}]

\* one chunk of the OpenAI stream: chunk.choices[0]?.delta?.content and chunk.usage
OpenAIStreamItems ==
    [content : {None, Some(<<>>), Some(<<"a">>), Some(<<"b", "c">>)},
     usage : {None, Some([prompt_tokens |-> 5, completion_tokens |-> 2])}]

\* one event of the Anthropic stream: its type, the delta (absent, a text delta,
\* or another delta, given by its JSON text) and the usage
AnthropicStreamItems ==
    [type : {"content_block_delta"},
     delta : {None, Some([text |-> Some(<<>>), json |-> <<>>]),
              Some([text |-> Some(<<"a">>), json |-> <<>>]),
              Some([text |-> Some(<<"b", "c">>), json |-> <<>>]),
              Some([text |-> None, json |-> <<"{", "}">>])},
     usage : {None}]
    \cup
    [type : {"message_delta"}, delta : {None},
     usage : {None, Some([input_tokens |-> 5, output_tokens |-> 2]),
              Some([input_tokens |-> 0, output_tokens |-> 2])}]
    \cup
    [type : {"message_start"}, delta : {None}, usage : {None}]

(***************************************************************************)
(* State: one adapter call at a time (an adapter keeps no state between    *)
(* calls; every variable but the call's inputs is a local of the call or   *)
(* an observation of it).                                                  *)
(***************************************************************************)
VARIABLES
    provider,               \* the adapter called: "none" before the first call
    op,                     \* "generate" or "generateStream"
    params,                 \* the AIModelRequest
    pc,                     \* where the call is
    retries,                \* GoogleAIProvider.generate: let retries
    delay,                  \* GoogleAIProvider.generate: let delay
    events,                 \* observed: backend attempts and backoff waits, in order
    generated,              \* GoogleAIProvider.generateStream: outcome of this.generate
    messages,               \* generateStream: let messages
    system,                 \* AnthropicProvider.generateStream: let system
    accumulatedContent,
    totalPromptTokens,
    totalCompletionTokens,
    items,                  \* stream items consumed so far
    sentChars,              \* GoogleAIProvider.generateStream: let sentChars
    chunks,                 \* observed: the chunks passed to onChunk, in order
    outcome,                \* "none" while pending, then "resolved" or "rejected"
    error,                  \* message of the rejection
    failure,                \* observed: what failed first inside generateStream's try
                            \* block: "none", "backend", "stream" or "sink" (onChunk)
    response,               \* the AIModelResponse that the call resolved with
    now,                    \* Date.now(), in milliseconds since the call began
    config,                 \* the AppConfig object given to the constructor, as it is now
    builtFrom,              \* observed: the AppConfig as it was at construction
    providers,              \* ModelService: this.providers, in insertion order
    service,                \* "unbuilt" before new ModelService(config), then "ready"
    standalone,             \* an adapter constructed on its own: new XProvider(apiKey)
    lastCall,               \* observed: the last call on the ModelService or on the
                            \* adapter, and its result
    resolved,               \* observed: every (modelId, result) of getProviderForModel
    adhoc,                  \* ModelServiceImplementation: this.anthropic, and the
                            \* generate call in progress with what its caller observed
    calls,                  \* the calls in progress at once on the adapters, each with
                            \* its own locals and what its caller observed
    base,                   \* a generateStream call on an adapter that inherits it from
                            \* BaseModelProvider, and what its caller observed
    cache,                  \* CacheService: its fields, the Redis client behind it, the
                            \* operation in progress and what its caller observed
    email                   \* EmailService: its static transporter, the setup and the
                            \* sendEmail in progress and what its caller observed

\* the state of the ModelService and what its caller observed
serviceVars == <<config, builtFrom, providers, service, standalone, lastCall, resolved,
                 adhoc, calls, base, cache, email>>

\* the state of the other services
otherVars == <<base, cache, email>>

\* everything but the state of the other services
modelVars == <<provider, op, params, pc, retries, delay, events, generated, messages,
               system, accumulatedContent, totalPromptTokens, totalCompletionTokens,
               items, sentChars, chunks, outcome, error, failure, response, now,
               config, builtFrom, providers, service, standalone, lastCall, resolved,
               adhoc, calls>>

\* the state of the adapter call and what its caller observed
adapterVars == <<provider, op, params, pc, retries, delay, events, generated, messages,
                 system, accumulatedContent, totalPromptTokens, totalCompletionTokens,
                 items, sentChars, chunks, outcome, error, failure, response, now>>

vars == <<adapterVars, serviceVars>>

\* a variant of maxRetries: one retry more
maxRetriesOneMore == 3 + 1

\* GoogleAIProvider.generate: const maxRetries
maxRetries == 3

\* GoogleAIProvider.generate: let delay = 1000
initialDelay == 1000

\* a variant of chunkSize: one character more
chunkSizeEleven == 10 + 1

\* GoogleAIProvider.generateStream: const chunkSize
chunkSize == 10

\* GoogleAIProvider.generateStream: setTimeout(resolve, 50) between two chunks
streamingDelay == 50

NoRequest == Request(<<>>, StringPrompt(<<>>), None)

\* the AppConfig fields that ModelService reads
AppConfig(openaiApiKey, anthropicApiKey, geminiApiKey) ==
    [openaiApiKey |-> openaiApiKey, anthropicApiKey |-> anthropicApiKey,
     geminiApiKey |-> geminiApiKey]

NoConfig == AppConfig(None, None, None)

\* a call on the ModelService (or on an adapter), its argument and what it returned
Call(name, arg, result) == [name |-> name, arg |-> arg, result |-> result]

NoCall == Call("none", <<>>, <<>>)

\* the params of ModelServiceImplementation.generate: messages of
\* { role, content: string }, options.system and options.maxTokens
AdHocParams(prov, model, msgs, systemOption, maxTokens) ==
    [provider |-> prov, model |-> model, messages |-> msgs, system |-> systemOption,
     maxTokens |-> maxTokens]

NoAdHocParams == AdHocParams("none", <<>>, <<>>, None, None)

\* the ModelServiceImplementation before its constructor ran; anthropic is whether
\* this.anthropic holds a client, fallback whether 'Using mock AI response as
\* fallback.' was logged by the call, request what was given to messages.create
AdHocUnbuilt ==
    [service |-> "unbuilt", anthropic |-> FALSE, pc |-> "idle", params |-> NoAdHocParams,
     request |-> None, fallback |-> FALSE, outcome |-> "none", content |-> <<>>,
     usage |-> None, error |-> <<>>]

\* the calls that may be in progress at once
CallIds == {1, 2}

\* a call that has not started: its locals and what its caller observed (events are
\* the outcomes of its own backend, received the chunks passed to its onChunk)
CallIdle ==
    [op |-> "none", pc |-> "idle", streamId |-> <<>>, retries |-> 0, delay |-> 0,
     events |-> <<>>, accumulatedContent |-> <<>>, received |-> <<>>,
     outcome |-> "none", content |-> <<>>]

\* no generateStream call on the inheriting adapter yet
BaseIdle ==
    [pc |-> "idle", params |-> NoRequest, requestId |-> None, streamId |-> <<>>,
     generateCalls |-> 0, chunks |-> <<>>, outcome |-> "none", response |-> None,
     error |-> <<>>]

\* a value given to the cache or returned by it: a string s, NaN, null or undefined
CacheValue(t, str) == [t |-> t, s |-> str]

NullValue == CacheValue("null", <<>>)

\* no operation of the CacheService in progress
NoCacheOp == [name |-> "none", key |-> <<>>, value |-> NullValue, ttl |-> None,
              compress |-> None, pattern |-> None]

\* the CacheService before its constructor ran.  redis is whether this.redis holds a
\* client; link is the state of that client's connection, lastEvent the last event
\* it emitted; store is what Redis holds under each key; written is, per key, the
\* value of the last set that succeeded while its entry is still in Redis.
\* Of the call in progress or finished: op, pc, pending (the command awaited),
\* gated (the availability test failed), issued (a Redis command was sent), threw
\* (a Redis command threw), outcome, result, and hits and misses as they were when
\* it was called.
CacheUnbuilt ==
    [service |-> "unbuilt", redis |-> FALSE, isConnected |-> FALSE, hits |-> 0,
     misses |-> 0, link |-> "none", lastEvent |-> "none", store |-> <<>>,
     written |-> <<>>, op |-> NoCacheOp, pc |-> "idle", pending |-> <<>>,
     gated |-> FALSE, issued |-> FALSE, threw |-> FALSE, outcome |-> "none",
     result |-> <<>>, hitsBefore |-> 0, missesBefore |-> 0]

\* options of sendEmail: given is FALSE for a null argument
EmailOptions(html, text) ==
    [given |-> TRUE, to |-> <<"a", "@", "b">>, subject |-> <<"h", "i">>,
     html |-> html, text |-> text]

NullEmailOptions == [EmailOptions(None, None) EXCEPT !.given = FALSE]

\* EmailService before init: env is NODE_ENV as the calls have read it, transporter
\* the static field, setups the setupDevTransport calls awaiting createTestAccount,
\* mail what was passed to sendMail, handed and delivered the sendMail calls made
\* and resolved, preview the preview URL logged
EmailUninitialized ==
    [env |-> "unknown", transporter |-> "unset", inits |-> 0, setups |-> 0,
     setupFailed |-> FALSE, pc |-> "idle", options |-> NullEmailOptions,
     mail |-> None, calls |-> 0, handed |-> 0, delivered |-> 0,
     mailOutcome |-> "none", outcome |-> "none", result |-> FALSE, preview |-> None]

Init ==
    /\ provider = "none"
    /\ op = "none"
    /\ params = NoRequest
    /\ pc = "idle"
    /\ retries = 0
    /\ delay = initialDelay
    /\ events = <<>>
    /\ generated = None
    /\ messages = <<>>
    /\ system = None
    /\ accumulatedContent = <<>>
    /\ totalPromptTokens = 0
    /\ totalCompletionTokens = 0
    /\ items = 0
    /\ sentChars = 0
    /\ chunks = <<>>
    /\ outcome = "none"
    /\ error = <<>>
    /\ failure = "none"
    /\ response = None
    /\ now = 0
    /\ config = NoConfig
    /\ builtFrom = NoConfig
    /\ providers = <<>>
    /\ service = "unbuilt"
    /\ standalone = None
    /\ lastCall = NoCall
    /\ resolved = {}
    /\ adhoc = AdHocUnbuilt
    /\ calls = [c \in CallIds |-> CallIdle]
    /\ base = BaseIdle
    /\ cache = CacheUnbuilt
    /\ email = EmailUninitialized

\* a backend call and what it returned (content, for a Google call) or threw
AttemptEvent(ok, errorMessage, content) ==
    [kind |-> "attempt", ok |-> ok, errorMessage |-> errorMessage, content |-> content,
     ms |-> 0, returned |-> None]

\* a backend call of OpenAI / Anthropic generate that returned the response resp
AttemptReturned(resp) ==
    [kind |-> "attempt", ok |-> TRUE, errorMessage |-> <<>>, content |-> <<>>,
     ms |-> 0, returned |-> Some(resp)]

\* a backoff wait of ms milliseconds
WaitEvent(ms) ==
    [kind |-> "wait", ok |-> FALSE, errorMessage |-> <<>>, content |-> <<>>, ms |-> ms,
     returned |-> None]

Response(modelId, prov, content, usage) ==
    [modelId |-> modelId, provider |-> prov, content |-> content, usage |-> usage]

\* a chunkId `${streamId}-${tag}${Date.now()}` of a call (one streamId per call):
\* tag is "", "final-" or "error-"
ChunkId(tag, ms) == [tag |-> tag, ms |-> ms]

\* a StreamChunk: chunkId, payload.text, payload.error, isFinal and metadata.usage
Chunk(chunkId, type, text, err, isFinal, usage) ==
    [chunkId |-> chunkId, type |-> type, text |-> text, error |-> err,
     isFinal |-> isFinal, usage |-> usage]

\* a falsy-or-absent optional number read as `x || 0`
OrZero(opt, field) == IF opt = None THEN 0 ELSE opt[1][field]

\* a falsy-or-absent optional string read as `x || ''`
OrEmpty(opt) == IF opt = None THEN <<>> ELSE opt[1]

\* an optional string is truthy when present and not empty
Truthy(opt) == opt # None /\ opt[1] # <<>>

(***************************************************************************)
(* A call starts.  Its locals are fresh; the observations start empty.     *)
(* The synchronous prefix of the call runs up to its first await.          *)
(***************************************************************************)
\* OpenAIProvider.generateStream: let messages
OpenAIStreamMessages(req) ==
    IF ~req.prompt.isArray
      THEN (IF Truthy(req.systemPrompt)
              THEN <<Native("system", req.systemPrompt[1], <<>>)>> ELSE <<>>)
           \o <<Native("user", req.prompt.text, <<>>)>>
      ELSE OpenAIFormatMessages(req.prompt.messages, req.systemPrompt)

\* AnthropicProvider.generateStream: let messages
AnthropicStreamMessages(req) ==
    IF ~req.prompt.isArray
      THEN <<Native("user", req.prompt.text, <<>>)>>
      ELSE AnthropicFormatMessages(req.prompt.messages, req.systemPrompt)

\* Array.prototype.find(m => m.role === MessageRole.SYSTEM): the first one, if any
FindSystemMessage(msgs) ==
    IF \E i \in 1..Len(msgs) : msgs[i].role = MessageRole_SYSTEM
      THEN Some(msgs[CHOOSE i \in 1..Len(msgs) :
                       /\ msgs[i].role = MessageRole_SYSTEM
                       /\ \A j \in 1..(i - 1) : msgs[j].role # MessageRole_SYSTEM])
      ELSE None

\* AnthropicProvider.generateStream: let system
AnthropicStreamSystem(req) ==
    IF ~req.prompt.isArray THEN req.systemPrompt
    ELSE LET systemMessage == FindSystemMessage(req.prompt.messages)
         IN  IF systemMessage # None /\ ~Truthy(req.systemPrompt)
               THEN Some(AnthropicGetTextFromContentBlocks(systemMessage[1].content))
               ELSE req.systemPrompt

Invoke(p, o, req) ==
    /\ pc \in {"idle", "done"}
    /\ provider' = p
    /\ op' = o
    /\ params' = req
    /\ retries' = 0
    /\ delay' = initialDelay
    /\ events' = <<>>
    /\ generated' = None
    /\ messages' = IF o = "generateStream" /\ p = "openai" THEN OpenAIStreamMessages(req)
                   ELSE IF o = "generateStream" /\ p = "anthropic"
                     THEN AnthropicStreamMessages(req)
                   ELSE <<>>
    /\ system' = IF o = "generateStream" /\ p = "anthropic" THEN AnthropicStreamSystem(req)
                 ELSE None
    /\ accumulatedContent' = <<>>
    /\ totalPromptTokens' = 0
    /\ totalCompletionTokens' = 0
    /\ items' = 0
    /\ sentChars' = 0
    /\ chunks' = <<>>
    /\ outcome' = "none"
    /\ error' = <<>>
    /\ failure' = "none"
    /\ response' = None
    /\ now' = 0
    /\ UNCHANGED serviceVars
    /\ pc' = IF p = "google" THEN "g_attempt"
             ELSE IF o = "generate" THEN "attempt"
             ELSE "s_create"

(***************************************************************************)
(* The catch block of the three generateStream methods: the error chunk is *)
(* passed to onChunk and the call rejects with the prefixed message; when  *)
(* onChunk throws on the error chunk, its error leaves the catch block.    *)
(***************************************************************************)
ErrorChunk(errorMessage) ==
    Chunk(ChunkId("error-", now), "error", <<>>, errorMessage, TRUE, None)

\* a variant of StreamCatch: the failure is rethrown without an error chunk
StreamCatchNoChunk(emitted, errorMessage, prefix, sinkThrows, what) ==
    /\ chunks' = emitted
    /\ failure' = what
    /\ outcome' = "rejected"
    /\ error' = prefix \o errorMessage
    /\ response' = None
    /\ pc' = "done"

StreamCatch(emitted, errorMessage, prefix, sinkThrows, what) ==
    /\ chunks' = Append(emitted, ErrorChunk(errorMessage))
    /\ failure' = what
    /\ outcome' = "rejected"
    /\ error' = IF sinkThrows THEN SinkErrorText ELSE prefix \o errorMessage
    /\ response' = None
    /\ pc' = "done"

(***************************************************************************)
(* GoogleAIProvider.generate                                               *)
(***************************************************************************)
isRateLimitError(errorMessage) ==
    \/ includes(toLowerCase(errorMessage), quota)
    \/ includes(toLowerCase(errorMessage), rate)
    \/ includes(toLowerCase(errorMessage), limit)

\* a variant of GoogleShouldRetry: the error is not classified
GoogleShouldRetryAnyError(errorMessage, n) == n < maxRetries

\* the catch block retries when this holds
GoogleShouldRetry(errorMessage, n) == isRateLimitError(errorMessage) /\ n < maxRetries

\* a variant of NextDelay: the delay is not doubled
NextDelayConstant(d) == d

\* delay *= 2
NextDelay(d) == d * 2

\* the while condition
GoogleLoopCondition(n) == n <= maxRetries

\* usage.promptTokens of GoogleAIProvider.generate
GooglePromptTokens(prompt) ==
    IF ~prompt.isArray THEN GoogleCountTokens(prompt.text)
    ELSE SumSeq([i \in 1..Len(prompt.messages) |->
                   GoogleCountTokens(GoogleGetTextFromContentBlocks(
                                         prompt.messages[i].content))])

GoogleResponse(req, candidate) ==
    LET content == OrEmpty(candidate)
        inputTokens == GooglePromptTokens(req.prompt)
        outputTokens == GoogleCountTokens(content)
    IN  Response(req.modelId, "google", content,
                 Usage(inputTokens, outputTokens, inputTokens + outputTokens,
                       GoogleCalculateCost(req.modelId, inputTokens, outputTokens)))

\* how a finished GoogleAIProvider.generate hands its result on: to the caller, or
\* to generateStream, which awaits it
GoogleGenerateSettles(ok, resp, err) ==
    IF op = "generateStream"
      THEN /\ generated' = Some([ok |-> ok, response |-> resp, error |-> err])
           /\ pc' = "gs_resume"
           /\ UNCHANGED <<outcome, error, failure, response>>
      ELSE /\ outcome' = IF ok THEN "resolved" ELSE "rejected"
           /\ error' = err
           /\ response' = resp
           /\ pc' = "done"
           /\ UNCHANGED <<generated, failure>>

\* one backend call that returns
GoogleAttemptReturns(candidate) ==
    /\ pc = "g_attempt"
    /\ events' = Append(events, AttemptEvent(TRUE, <<>>, OrEmpty(candidate)))
    /\ GoogleGenerateSettles(TRUE, Some(GoogleResponse(params, candidate)), <<>>)
    /\ UNCHANGED <<serviceVars, now, provider, op, params, retries, delay, messages, system,
                   accumulatedContent, totalPromptTokens, totalCompletionTokens, items,
                   sentChars, chunks>>

\* one backend call that throws: the catch block
GoogleAttemptThrows(errorMessage) ==
    /\ pc = "g_attempt"
    /\ IF GoogleShouldRetry(errorMessage, retries)
         THEN /\ events' = events \o <<AttemptEvent(FALSE, errorMessage, <<>>), WaitEvent(delay)>>
              /\ pc' = "g_wait"
              /\ UNCHANGED <<generated, outcome, error, failure, response>>
         ELSE /\ events' = Append(events, AttemptEvent(FALSE, errorMessage, <<>>))
              /\ GoogleGenerateSettles(FALSE, None, GoogleApiErrorPrefix \o errorMessage)
    /\ UNCHANGED <<serviceVars, now, provider, op, params, retries, delay, messages, system,
                   accumulatedContent, totalPromptTokens, totalCompletionTokens, items,
                   sentChars, chunks>>

\* the backoff timer fires: retries++, delay *= 2, continue
GoogleBackoffElapsed ==
    /\ pc = "g_wait"
    /\ retries' = retries + 1
    /\ delay' = NextDelay(delay)
    /\ now' = now + delay
    /\ IF GoogleLoopCondition(retries + 1)
         THEN /\ pc' = "g_attempt"
              /\ UNCHANGED <<generated, outcome, error, failure, response>>
         ELSE GoogleGenerateSettles(FALSE, None, GoogleApiErrorPrefix \o MaxRetryText)
    /\ UNCHANGED <<serviceVars, provider, op, params, events, messages, system,
                   accumulatedContent, totalPromptTokens, totalCompletionTokens, items,
                   sentChars, chunks>>

(***************************************************************************)
(* GoogleAIProvider.generateStream                                         *)
(***************************************************************************)
\* a variant of GoogleStreamChunkAt: the chunk is one character short
GoogleStreamChunkAtShort(text, sent, usage) ==
    LET chunk == substring(text, sent, sent + chunkSize - 1)
        after == sent + chunkSize
    IN  Chunk(ChunkId("", now), "content_delta", chunk, <<>>, after >= Len(text),
              IF after >= Len(text) THEN Some(usage) ELSE None)

\* the chunk the loop passes to onChunk, and sentChars after it
GoogleStreamChunkAt(text, sent, usage) ==
    LET chunk == substring(text, sent, sent + chunkSize)
        after == sent + chunkSize
    IN  Chunk(ChunkId("", now), "content_delta", chunk, <<>>, after >= Len(text),
              IF after >= Len(text) THEN Some(usage) ELSE None)

\* await this.generate(params) resumes: the text to send, or the catch block
GoogleStreamResume ==
    /\ pc = "gs_resume"
    /\ \E sinkThrows \in BOOLEAN :
         IF generated[1].ok
           THEN /\ pc' = "gs_loop"
                /\ sentChars' = 0
                /\ UNCHANGED <<chunks, outcome, error, failure, response>>
           ELSE /\ StreamCatch(chunks, generated[1].error, GoogleStreamingErrorPrefix,
                               sinkThrows, "backend")
                /\ UNCHANGED sentChars
    /\ UNCHANGED <<serviceVars, now, provider, op, params, retries, delay, events, generated, messages,
                   system, accumulatedContent, totalPromptTokens, totalCompletionTokens,
                   items>>

\* one turn of the while loop: a chunk of chunkSize characters, then the 50 ms wait
GoogleStreamChunk ==
    /\ pc = "gs_loop"
    /\ sentChars < Len(generated[1].response[1].content)
    /\ \E sinkThrows \in BOOLEAN, sinkThrowsAgain \in BOOLEAN :
         LET resp == generated[1].response[1]
             emitted == Append(chunks, GoogleStreamChunkAt(resp.content, sentChars,
                                                           resp.usage))
         IN  /\ sentChars' = sentChars + chunkSize
             /\ IF sinkThrows
                  THEN /\ StreamCatch(emitted, SinkErrorText, GoogleStreamingErrorPrefix,
                                      sinkThrowsAgain, "sink")
                       /\ UNCHANGED now
                  ELSE /\ chunks' = emitted
                       /\ now' = now + streamingDelay
                       /\ UNCHANGED <<pc, outcome, error, failure, response>>
    /\ UNCHANGED <<serviceVars, provider, op, params, retries, delay, events, generated, messages,
                   system, accumulatedContent, totalPromptTokens, totalCompletionTokens,
                   items>>

\* the loop condition fails: return response
GoogleStreamReturn ==
    /\ pc = "gs_loop"
    /\ ~(sentChars < Len(generated[1].response[1].content))
    /\ outcome' = "resolved"
    /\ response' = generated[1].response
    /\ pc' = "done"
    /\ UNCHANGED <<serviceVars, now, provider, op, params, retries, delay, events, generated, messages,
                   system, accumulatedContent, totalPromptTokens, totalCompletionTokens,
                   items, sentChars, chunks, error, failure>>

(***************************************************************************)
(* OpenAIProvider.generate and AnthropicProvider.generate: one backend     *)
(* call inside one try block.                                              *)
(***************************************************************************)
OpenAIResponse(req, resp) ==
    Response(req.modelId, "openai", OrEmpty(resp.content),
             Usage(OrZero(resp.usage, "prompt_tokens"),
                   OrZero(resp.usage, "completion_tokens"),
                   OrZero(resp.usage, "total_tokens"),
                   OpenAICalculateCost(req.modelId, OrZero(resp.usage, "prompt_tokens"),
                                       OrZero(resp.usage, "completion_tokens"))))

AnthropicResponse(req, resp) ==
    Response(req.modelId, "anthropic", extractTextFromContent(resp.content),
             Usage(OrZero(resp.usage, "input_tokens"),
                   OrZero(resp.usage, "output_tokens"),
                   OrZero(resp.usage, "input_tokens") + OrZero(resp.usage, "output_tokens"),
                   AnthropicCalculateCost(req.modelId, OrZero(resp.usage, "input_tokens"),
                                          OrZero(resp.usage, "output_tokens"))))

GenerateFrame ==
    UNCHANGED <<serviceVars, now, provider, op, params, retries, delay, generated, messages, system,
                accumulatedContent, totalPromptTokens, totalCompletionTokens, items,
                sentChars, chunks, failure>>

OpenAIGenerateReturns(resp) ==
    /\ pc = "attempt" /\ provider = "openai"
    /\ events' = Append(events, AttemptReturned(resp))
    /\ outcome' = "resolved"
    /\ response' = Some(OpenAIResponse(params, resp))
    /\ error' = <<>>
    /\ pc' = "done"
    /\ GenerateFrame

\* the catch block: log and rethrow, whatever the error
OpenAIGenerateThrows(errorMessage) ==
    /\ pc = "attempt" /\ provider = "openai"
    /\ events' = Append(events, AttemptEvent(FALSE, errorMessage, <<>>))
    /\ outcome' = "rejected"
    /\ response' = None
    /\ error' = OpenAIApiErrorPrefix \o errorMessage
    /\ pc' = "done"
    /\ GenerateFrame

AnthropicGenerateReturns(resp) ==
    /\ pc = "attempt" /\ provider = "anthropic"
    /\ events' = Append(events, AttemptReturned(resp))
    /\ outcome' = "resolved"
    /\ response' = Some(AnthropicResponse(params, resp))
    /\ error' = <<>>
    /\ pc' = "done"
    /\ GenerateFrame

\* a variant of AnthropicGenerateThrows: the failure is swallowed and an empty
\* response returned
AnthropicGenerateSwallows(errorMessage) ==
    /\ pc = "attempt" /\ provider = "anthropic"
    /\ events' = Append(events, AttemptEvent(FALSE, errorMessage, <<>>))
    /\ outcome' = "resolved"
    /\ response' = Some(Response(params.modelId, "anthropic", <<>>, Usage(0, 0, 0, 0)))
    /\ error' = <<>>
    /\ pc' = "done"
    /\ GenerateFrame

AnthropicGenerateThrows(errorMessage) ==
    /\ pc = "attempt" /\ provider = "anthropic"
    /\ events' = Append(events, AttemptEvent(FALSE, errorMessage, <<>>))
    /\ outcome' = "rejected"
    /\ response' = None
    /\ error' = AnthropicApiErrorPrefix \o errorMessage
    /\ pc' = "done"
    /\ GenerateFrame

(***************************************************************************)
(* OpenAIProvider.generateStream                                           *)
(***************************************************************************)
StreamFrame ==
    UNCHANGED <<serviceVars, now, provider, op, params, retries, delay, generated, messages, system,
                sentChars>>

\* await this.client.chat.completions.create({..., stream: true}) returns the stream
OpenAIStreamCreated ==
    /\ pc = "s_create" /\ provider = "openai"
    /\ events' = Append(events, AttemptEvent(TRUE, <<>>, <<>>))
    /\ pc' = "s_iter"
    /\ UNCHANGED <<accumulatedContent, totalPromptTokens, totalCompletionTokens, items,
                   chunks, outcome, error, failure, response>>
    /\ StreamFrame

\* ... or throws
OpenAIStreamCreateThrows(errorMessage, sinkThrows) ==
    /\ pc = "s_create" /\ provider = "openai"
    /\ events' = Append(events, AttemptEvent(FALSE, errorMessage, <<>>))
    /\ StreamCatch(chunks, errorMessage, OpenAIStreamingErrorPrefix, sinkThrows, "backend")
    /\ UNCHANGED <<accumulatedContent, totalPromptTokens, totalCompletionTokens, items>>
    /\ StreamFrame

\* one turn of the for-await loop
OpenAIStreamNext(chunk, sinkThrows, sinkThrowsAgain) ==
    /\ pc = "s_iter" /\ provider = "openai"
    /\ items < MaxStreamItems
    /\ items' = items + 1
    /\ LET contentDelta == OrEmpty(chunk.content)
           emitted == Append(chunks, Chunk(ChunkId("", now), "content_delta", contentDelta,
                                          <<>>, FALSE, None))
       IN  /\ accumulatedContent' = accumulatedContent \o contentDelta
           /\ IF contentDelta # <<>> /\ sinkThrows
                THEN /\ StreamCatch(emitted, SinkErrorText, OpenAIStreamingErrorPrefix,
                                    sinkThrowsAgain, "sink")
                     /\ UNCHANGED <<totalPromptTokens, totalCompletionTokens>>
                ELSE /\ chunks' = IF contentDelta # <<>> THEN emitted ELSE chunks
                     /\ totalPromptTokens' =
                          IF chunk.usage # None THEN chunk.usage[1].prompt_tokens
                          ELSE totalPromptTokens
                     /\ totalCompletionTokens' =
                          IF chunk.usage # None THEN chunk.usage[1].completion_tokens
                          ELSE totalCompletionTokens
                     /\ UNCHANGED <<pc, outcome, error, failure, response>>
    /\ UNCHANGED events
    /\ StreamFrame

\* the iteration throws
OpenAIStreamThrows(errorMessage, sinkThrows) ==
    /\ pc = "s_iter" /\ provider = "openai"
    /\ StreamCatch(chunks, errorMessage, OpenAIStreamingErrorPrefix, sinkThrows, "stream")
    /\ UNCHANGED <<events, accumulatedContent, totalPromptTokens, totalCompletionTokens,
                   items>>
    /\ StreamFrame

\* totalPromptTokens after "if we didn't get usage info from the stream, estimate it"
OpenAIEstimatedPromptTokens(total, msgs) ==
    IF total = 0
      THEN SumSeq([i \in 1..Len(msgs) |-> OpenAICountTokens(msgs[i].content)])
      ELSE total

OpenAIEstimatedCompletionTokens(total, content) ==
    IF total = 0 THEN OpenAICountTokens(content) ELSE total

\* metadata.usage of the final chunk
OpenAIFinalChunkUsage(modelId, promptTokens, completionTokens) ==
    Usage(promptTokens, completionTokens, promptTokens + completionTokens,
          OpenAICalculateCost(modelId, promptTokens, completionTokens))

\* usage of the returned response
OpenAIStreamResponseUsage(modelId, promptTokens, completionTokens) ==
    Usage(promptTokens, completionTokens, promptTokens + completionTokens,
          OpenAICalculateCost(modelId, promptTokens, completionTokens))

\* the stream ends: estimate the usage, send the final chunk, return the response
OpenAIStreamEnds(sinkThrows, sinkThrowsAgain) ==
    /\ pc = "s_iter" /\ provider = "openai"
    /\ LET promptTokens == OpenAIEstimatedPromptTokens(totalPromptTokens, messages)
           completionTokens ==
               OpenAIEstimatedCompletionTokens(totalCompletionTokens, accumulatedContent)
           emitted ==
               Append(chunks,
                      Chunk(ChunkId("final-", now), "content_delta", <<>>, <<>>, TRUE,
                            Some(OpenAIFinalChunkUsage(params.modelId, promptTokens,
                                                       completionTokens))))
       IN  /\ totalPromptTokens' = promptTokens
           /\ totalCompletionTokens' = completionTokens
           /\ IF sinkThrows
                THEN StreamCatch(emitted, SinkErrorText, OpenAIStreamingErrorPrefix,
                                 sinkThrowsAgain, "sink")
                ELSE /\ chunks' = emitted
                     /\ outcome' = "resolved"
                     /\ error' = <<>>
                     /\ UNCHANGED failure
                     /\ response' =
                          Some(Response(params.modelId, "openai", accumulatedContent,
                                        OpenAIStreamResponseUsage(params.modelId,
                                                                  promptTokens,
                                                                  completionTokens)))
                     /\ pc' = "done"
    /\ UNCHANGED <<events, accumulatedContent, items>>
    /\ StreamFrame

(***************************************************************************)
(* AnthropicProvider.generateStream                                        *)
(***************************************************************************)
AnthropicStreamCreated ==
    /\ pc = "s_create" /\ provider = "anthropic"
    /\ events' = Append(events, AttemptEvent(TRUE, <<>>, <<>>))
    /\ pc' = "s_iter"
    /\ UNCHANGED <<accumulatedContent, totalPromptTokens, totalCompletionTokens, items,
                   chunks, outcome, error, failure, response>>
    /\ StreamFrame

AnthropicStreamCreateThrows(errorMessage, sinkThrows) ==
    /\ pc = "s_create" /\ provider = "anthropic"
    /\ events' = Append(events, AttemptEvent(FALSE, errorMessage, <<>>))
    /\ StreamCatch(chunks, errorMessage, AnthropicStreamingErrorPrefix, sinkThrows, "backend")
    /\ UNCHANGED <<accumulatedContent, totalPromptTokens, totalCompletionTokens, items>>
    /\ StreamFrame

\* textDelta of a content_block_delta event
AnthropicTextDelta(chunk) ==
    IF chunk.delta # None /\ chunk.delta[1].text # None THEN chunk.delta[1].text[1]
    ELSE IF chunk.delta # None THEN chunk.delta[1].json
    ELSE <<>>

AnthropicStreamNext(chunk, sinkThrows, sinkThrowsAgain) ==
    /\ pc = "s_iter" /\ provider = "anthropic"
    /\ items < MaxStreamItems
    /\ items' = items + 1
    /\ IF chunk.type = "content_block_delta"
         THEN LET textDelta == AnthropicTextDelta(chunk)
                  emitted == Append(chunks,
                                    Chunk(ChunkId("", now), "content_delta", textDelta,
                                          <<>>, FALSE, None))
              IN  /\ accumulatedContent' = accumulatedContent \o textDelta
                  /\ UNCHANGED <<totalPromptTokens, totalCompletionTokens>>
                  /\ IF textDelta # <<>> /\ sinkThrows
                       THEN StreamCatch(emitted, SinkErrorText,
                                        AnthropicStreamingErrorPrefix, sinkThrowsAgain, "sink")
                       ELSE /\ chunks' = IF textDelta # <<>> THEN emitted ELSE chunks
                            /\ UNCHANGED <<pc, outcome, error, failure, response>>
         ELSE /\ IF chunk.type = "message_delta" /\ chunk.usage # None
                   THEN /\ totalPromptTokens' = chunk.usage[1].input_tokens
                        /\ totalCompletionTokens' = chunk.usage[1].output_tokens
                   ELSE UNCHANGED <<totalPromptTokens, totalCompletionTokens>>
              /\ UNCHANGED <<accumulatedContent, chunks, pc, outcome, error, failure, response>>
    /\ UNCHANGED events
    /\ StreamFrame

AnthropicStreamThrows(errorMessage, sinkThrows) ==
    /\ pc = "s_iter" /\ provider = "anthropic"
    /\ StreamCatch(chunks, errorMessage, AnthropicStreamingErrorPrefix, sinkThrows, "stream")
    /\ UNCHANGED <<events, accumulatedContent, totalPromptTokens, totalCompletionTokens,
                   items>>
    /\ StreamFrame

AnthropicEstimatedPromptTokens(total, msgs, sys) ==
    IF total = 0
      THEN SumSeq([i \in 1..Len(msgs) |-> AnthropicCountTokens(msgs[i].content)])
           + (IF Truthy(sys) THEN AnthropicCountTokens(sys[1]) ELSE 0)
      ELSE total

AnthropicEstimatedCompletionTokens(total, content) ==
    IF total = 0 THEN AnthropicCountTokens(content) ELSE total

AnthropicFinalChunkUsage(modelId, promptTokens, completionTokens) ==
    Usage(promptTokens, completionTokens, promptTokens + completionTokens,
          AnthropicCalculateCost(modelId, promptTokens, completionTokens))

AnthropicStreamResponseUsage(modelId, promptTokens, completionTokens) ==
    Usage(promptTokens, completionTokens, promptTokens + completionTokens,
          AnthropicCalculateCost(modelId, promptTokens, completionTokens))

AnthropicStreamEnds(sinkThrows, sinkThrowsAgain) ==
    /\ pc = "s_iter" /\ provider = "anthropic"
    /\ LET promptTokens ==
               AnthropicEstimatedPromptTokens(totalPromptTokens, messages, system)
           completionTokens ==
               AnthropicEstimatedCompletionTokens(totalCompletionTokens,
                                                  accumulatedContent)
           emitted ==
               Append(chunks,
                      Chunk(ChunkId("final-", now), "content_delta", <<>>, <<>>, TRUE,
                            Some(AnthropicFinalChunkUsage(params.modelId, promptTokens,
                                                          completionTokens))))
       IN  /\ totalPromptTokens' = promptTokens
           /\ totalCompletionTokens' = completionTokens
           /\ IF sinkThrows
                THEN StreamCatch(emitted, SinkErrorText, AnthropicStreamingErrorPrefix,
                                 sinkThrowsAgain, "sink")
                ELSE /\ chunks' = emitted
                     /\ outcome' = "resolved"
                     /\ error' = <<>>
                     /\ UNCHANGED failure
                     /\ response' =
                          Some(Response(params.modelId, "anthropic", accumulatedContent,
                                        AnthropicStreamResponseUsage(params.modelId,
                                                                     promptTokens,
                                                                     completionTokens)))
                     /\ pc' = "done"
    /\ UNCHANGED <<events, accumulatedContent, items>>
    /\ StreamFrame

(***************************************************************************)
(* The request each method sends to its backend: the native messages and,  *)
(* for Anthropic, the dedicated system field.                              *)
(***************************************************************************)
BackendRequest(msgs, systemField) == [messages |-> msgs, system |-> systemField]

\* OpenAIProvider.generate: messages of chat.completions.create
OpenAIGenerateMessages(req) ==
    IF ~req.prompt.isArray
      THEN (IF Truthy(req.systemPrompt)
              THEN <<Native("system", req.systemPrompt[1], <<>>)>> ELSE <<>>)
           \o <<Native("user", req.prompt.text, <<>>)>>
      ELSE OpenAIFormatMessages(req.prompt.messages, req.systemPrompt)

\* AnthropicProvider.generate: messages of messages.create
AnthropicGenerateMessages(req) ==
    IF ~req.prompt.isArray
      THEN <<Native("user", req.prompt.text, <<>>)>>
      ELSE AnthropicFormatMessages(req.prompt.messages, req.systemPrompt)

\* AnthropicProvider.generate: system of messages.create
AnthropicGenerateSystem(req) == req.systemPrompt

\* GoogleAIProvider.generate: prompt.messages of generateMessage; a message built
\* from a string prompt has no author
GoogleGenerateMessages(req) ==
    IF ~req.prompt.isArray
      THEN <<[content |-> req.prompt.text, author |-> "none"]>>
      ELSE GoogleFormatMessages(req.prompt.messages, None)

\* the request of method o of adapter p for params req (Google's generateStream
\* sends what its generate sends)
RequestSent(p, o, req) ==
    CASE p = "openai" /\ o = "generate" ->
           BackendRequest(OpenAIGenerateMessages(req), None)
      [] p = "openai" /\ o = "generateStream" ->
           BackendRequest(OpenAIStreamMessages(req), None)
      [] p = "anthropic" /\ o = "generate" ->
           BackendRequest(AnthropicGenerateMessages(req), AnthropicGenerateSystem(req))
      [] p = "anthropic" /\ o = "generateStream" ->
           BackendRequest(AnthropicStreamMessages(req), AnthropicStreamSystem(req))
      [] OTHER ->
           BackendRequest(GoogleGenerateMessages(req), None)

\* formatMessages of adapter p
FormatMessages(p, msgs, systemPrompt) ==
    CASE p = "openai" -> OpenAIFormatMessages(msgs, systemPrompt)
      [] p = "anthropic" -> AnthropicFormatMessages(msgs, systemPrompt)
      [] OTHER -> GoogleFormatMessages(msgs, systemPrompt)

\* the messages given to the adapters: the i-th message of a prompt has the text
\* "m" i, a TOOL message in an odd position has a toolCallId
Digit(i) == <<"0", "1", "2", "3", "4", "5", "6", "7", "8", "9">>[i + 1]

MessageAt(role, i) ==
    Message(role, <<TextBlock(<<"m", Digit(i)>>)>>,
            IF role = MessageRole_TOOL /\ i % 2 = 1 THEN <<"c", "1">> ELSE <<>>)

MessageRoles == {MessageRole_SYSTEM, MessageRole_USER, MessageRole_ASSISTANT,
                 MessageRole_TOOL}

MessageSequences ==
    UNION {{[i \in 1..n |-> MessageAt(roles[i], i)] : roles \in [1..n -> MessageRoles]} :
           n \in 0..MaxMessages}

SystemPrompts == {None, Some(<<>>), Some(SystemBrief)}

FormatRequests(p) ==
    {Request(DefaultModel(p), prompt, sp) :
        prompt \in {StringPrompt(PromptHello)} \cup
                   {ArrayPrompt(msgs) : msgs \in MessageSequences},
        sp \in SystemPrompts}

\* the synchronous prefix of generate / generateStream: the request is built
BuildRequest(p, o, req) ==
    /\ lastCall' = Call("request", [provider |-> p, op |-> o, params |-> req],
                        RequestSent(p, o, req))
    /\ UNCHANGED <<adapterVars, otherVars, adhoc, calls, config, builtFrom, providers, service, standalone, resolved>>

\* a call of formatMessages
FormatMessagesCall(p, msgs, systemPrompt) ==
    /\ lastCall' = Call("formatMessages",
                        [provider |-> p, messages |-> msgs, systemPrompt |-> systemPrompt],
                        FormatMessages(p, msgs, systemPrompt))
    /\ UNCHANGED <<adapterVars, otherVars, adhoc, calls, config, builtFrom, providers, service, standalone, resolved>>

FormatNext ==
    \/ \E p \in Providers, o \in {"generate", "generateStream"} :
          \E req \in FormatRequests(p) : BuildRequest(p, o, req)
    \/ \E p \in Providers, msgs \in MessageSequences, sp \in SystemPrompts :
          FormatMessagesCall(p, msgs, sp)

FormatSpec == Init /\ [][FormatNext]_vars

(***************************************************************************)
(* The pure helpers of the adapters, called on their own:                  *)
(* getTextFromContentBlocks, countTokens and calculateCost.                *)
(***************************************************************************)
GetTextFromContentBlocks(p, blocks) ==
    CASE p = "openai" -> OpenAIGetTextFromContentBlocks(blocks)
      [] p = "anthropic" -> AnthropicGetTextFromContentBlocks(blocks)
      [] OTHER -> GoogleGetTextFromContentBlocks(blocks)

CountTokens(p, text) ==
    CASE p = "openai" -> OpenAICountTokens(text)
      [] p = "anthropic" -> AnthropicCountTokens(text)
      [] OTHER -> GoogleCountTokens(text)

CalculateCost(p, modelId, promptTokens, completionTokens) ==
    CASE p = "openai" -> OpenAICalculateCost(modelId, promptTokens, completionTokens)
      [] p = "anthropic" -> AnthropicCalculateCost(modelId, promptTokens, completionTokens)
      [] OTHER -> GoogleCalculateCost(modelId, promptTokens, completionTokens)

\* content blocks: each type with its field filled and with its field empty, a
\* type that is not a ContentBlockType, and no type
BlockSamples ==
    {TextBlock(<<"H", "i">>), TextBlock(<<>>),
     CodeBlock(<<"x", "=", "1">>, <<"p", "y">>), CodeBlock(<<"x", "=", "1">>, <<>>),
     CodeBlock(<<>>, <<"p", "y">>),
     Block(ContentBlockType_TOOL_USE, <<>>, <<>>, <<>>, <<"g", "r", "e", "p">>, None, <<>>),
     Block(ContentBlockType_TOOL_USE, <<>>, <<>>, <<>>, <<>>, None, <<>>),
     ToolResultBlock(Some(<<"o", "k">>)), ToolResultBlock(None),
     Block(ContentBlockType_IMAGE, <<>>, <<>>, <<>>, <<>>, None, <<"c", "a", "t">>),
     Block(ContentBlockType_IMAGE, <<>>, <<>>, <<>>, <<>>, None, <<>>),
     Block(<<"v", "i", "d", "e", "o">>, <<>>, <<>>, <<>>, <<>>, None, <<>>),
     Block(<<>>, <<"H", "i">>, <<>>, <<>>, <<>>, None, <<>>)}

BlockSequences == UNION {[1..n -> BlockSamples] : n \in 0..MaxBlocks}

TokenCounts == {0, 1, 2, 999, 1000}

ModelIdsPriced ==
    {MODEL_IDS_GPT_4, MODEL_IDS_GPT_3_5_TURBO, MODEL_IDS_CLAUDE_3_OPUS,
     MODEL_IDS_CLAUDE_3_HAIKU, MODEL_IDS_GEMINI_PRO, MODEL_IDS_GEMINI_ULTRA,
     UnknownModelId}

PureFrame ==
    UNCHANGED <<adapterVars, otherVars, adhoc, calls, config, builtFrom, providers, service, standalone, resolved>>

GetTextFromContentBlocksCall(p, blocks) ==
    /\ lastCall' = Call("getTextFromContentBlocks", [provider |-> p, blocks |-> blocks],
                        GetTextFromContentBlocks(p, blocks))
    /\ PureFrame

CountTokensCall(p, text) ==
    /\ lastCall' = Call("countTokens", [provider |-> p, text |-> text],
                        CountTokens(p, text))
    /\ PureFrame

CalculateCostCall(p, modelId, promptTokens, completionTokens) ==
    /\ lastCall' = Call("calculateCost",
                        [provider |-> p, modelId |-> modelId,
                         promptTokens |-> promptTokens,
                         completionTokens |-> completionTokens],
                        CalculateCost(p, modelId, promptTokens, completionTokens))
    /\ PureFrame

PureNext ==
    \/ \E p \in Providers, blocks \in BlockSequences :
          GetTextFromContentBlocksCall(p, blocks)
    \/ \E p \in Providers, n \in 0..MaxTextLen : CountTokensCall(p, Text(n))
    \/ \E p \in Providers, modelId \in ModelIdsPriced :
          \E promptTokens \in TokenCounts, completionTokens \in TokenCounts :
             CalculateCostCall(p, modelId, promptTokens, completionTokens)

PureSpec == Init /\ [][PureNext]_vars

(***************************************************************************)
(* ModelService: the registry of adapters.  this.providers is a Map, kept  *)
(* as the sequence of its [key, value] entries in insertion order; an      *)
(* adapter is [kind, apiKey].                                              *)
(***************************************************************************)
PROVIDERS_OPENAI == "openai"

PROVIDERS_ANTHROPIC == "anthropic"

PROVIDERS_GOOGLE == "google"

\* BaseModelProvider.constructor: this.apiKey = apiKey
Adapter(kind, apiKey) == [kind |-> kind, apiKey |-> apiKey]

\* a variant of isAvailable: the credential is not looked at
isAvailableAlways(adapter) == TRUE

\* BaseModelProvider.isAvailable: Boolean(this.apiKey)
isAvailable(adapter) == adapter.apiKey # <<>>

\* Map.prototype.get: the value of the key, or undefined
MapGet(m, key) ==
    IF \E i \in DOMAIN m : m[i].key = key
      THEN Some(m[CHOOSE i \in DOMAIN m : m[i].key = key].value)
      ELSE None

\* Map.prototype.set: the value of a key that is there is replaced in place
MapSet(m, key, value) ==
    IF \E i \in DOMAIN m : m[i].key = key
      THEN [i \in DOMAIN m |-> IF m[i].key = key THEN [key |-> key, value |-> value]
                                ELSE m[i]]
      ELSE Append(m, [key |-> key, value |-> value])

\* Array.from(map.keys())
MapKeys(m) == [i \in DOMAIN m |-> m[i].key]

\* a variant of startsWith: the prefix is looked for anywhere in the string
startsWithAnywhere(str, prefix) == includes(str, prefix)

\* String.prototype.startsWith
startsWith(str, prefix) ==
    /\ Len(str) >= Len(prefix)
    /\ SubSeq(str, 1, Len(prefix)) = prefix

\* a variant of HasCredential: an empty string counts as a credential
HasCredentialDefined(credential) == credential # None

\* if (this.config.openaiApiKey): the credential is there and not empty
HasCredential(credential) == Truthy(credential)

\* ModelService.initializeProviders: this.providers after it
initializeProviders(cfg) ==
    LET empty == <<>>
        withOpenAI ==
          IF HasCredential(cfg.openaiApiKey)
            THEN MapSet(empty, PROVIDERS_OPENAI, Adapter("openai", cfg.openaiApiKey[1]))
            ELSE empty
        withAnthropic ==
          IF HasCredential(cfg.anthropicApiKey)
            THEN MapSet(withOpenAI, PROVIDERS_ANTHROPIC,
                        Adapter("anthropic", cfg.anthropicApiKey[1]))
            ELSE withOpenAI
    IN  IF HasCredential(cfg.geminiApiKey)
          THEN MapSet(withAnthropic, PROVIDERS_GOOGLE,
                      Adapter("google", cfg.geminiApiKey[1]))
          ELSE withAnthropic

\* a variant of getProviderForModel: a provider that is not registered is replaced
\* by the first registered one
getProviderForModelOrFirst(m, modelId) ==
    IF m = <<>> THEN None ELSE Some(m[1].value)

\* ModelService.getProviderForModel on this.providers = m: the adapter, or null
getProviderForModel(m, modelId) ==
    IF startsWith(modelId, <<"g", "p", "t">>) THEN MapGet(m, PROVIDERS_OPENAI)
    ELSE IF startsWith(modelId, <<"c", "l", "a", "u", "d", "e">>)
      THEN MapGet(m, PROVIDERS_ANTHROPIC)
    ELSE IF startsWith(modelId, <<"g", "e", "m", "i", "n", "i">>)
      THEN MapGet(m, PROVIDERS_GOOGLE)
    ELSE None

\* ModelService.isProviderAvailable on this.providers = m
isProviderAvailable(m, p) ==
    LET modelProvider == MapGet(m, p)
    IN  IF modelProvider = None THEN FALSE ELSE isAvailable(modelProvider[1])

\* ModelService.getAvailableProviders on this.providers = m
getAvailableProviders(m) == MapKeys(m)

\* the inputs of the ModelService
SecretKey == <<"s", "k", "-", "1">>

Credentials == {None, Some(<<>>), Some(SecretKey)}

AppConfigs == {AppConfig(o, a, g) : o \in Credentials, a \in Credentials, g \in Credentials}

\* what the configuration object may be changed to after construction
AppConfigsLater == {AppConfig(None, None, None),
                    AppConfig(Some(SecretKey), Some(SecretKey), Some(SecretKey))}

ModelIdsAsked ==
    {MODEL_IDS_GPT_4, MODEL_IDS_CLAUDE_3_HAIKU, MODEL_IDS_GEMINI_PRO, UnknownModelId,
     <<"x", "-", "g", "p", "t", "-", "4">>}

ProvidersAsked == {PROVIDERS_OPENAI, PROVIDERS_ANTHROPIC, PROVIDERS_GOOGLE, "mistral"}

ServiceFrame == UNCHANGED <<adapterVars, otherVars, adhoc, calls, config, builtFrom, providers, service, standalone>>

\* new ModelService(config)
Construct(cfg) ==
    /\ service = "unbuilt"
    /\ config' = cfg
    /\ builtFrom' = cfg
    /\ providers' = initializeProviders(cfg)
    /\ service' = "ready"
    /\ lastCall' = Call("constructor", cfg, "constructed")
    /\ UNCHANGED <<adapterVars, otherVars, adhoc, calls, standalone, resolved>>

\* the owner of the configuration object changes it after construction
ConfigChanges(cfg) ==
    /\ service = "ready"
    /\ config' = cfg
    /\ lastCall' = Call("configChanged", cfg, "changed")
    /\ UNCHANGED <<adapterVars, otherVars, adhoc, calls, builtFrom, providers, service, standalone, resolved>>

GetProviderForModel(modelId) ==
    /\ service = "ready"
    /\ LET result == getProviderForModel(providers, modelId)
       IN  /\ lastCall' = Call("getProviderForModel", modelId, result)
           /\ resolved' = resolved \cup {<<modelId, result>>}
    /\ ServiceFrame

\* a variant of IsProviderAvailable: a provider that is asked for is registered
IsProviderAvailableRegistering(p) ==
    /\ service = "ready"
    /\ lastCall' = Call("isProviderAvailable", p, isProviderAvailable(providers, p))
    /\ providers' = MapSet(providers, p, Adapter(p, SecretKey))
    /\ UNCHANGED <<adapterVars, otherVars, adhoc, calls, config, builtFrom, service, standalone, resolved>>

IsProviderAvailable(p) ==
    /\ service = "ready"
    /\ lastCall' = Call("isProviderAvailable", p, isProviderAvailable(providers, p))
    /\ UNCHANGED resolved
    /\ ServiceFrame

GetAvailableProviders ==
    /\ service = "ready"
    /\ lastCall' = Call("getAvailableProviders", <<>>, getAvailableProviders(providers))
    /\ UNCHANGED resolved
    /\ ServiceFrame

\* new OpenAIProvider(apiKey), new AnthropicProvider(apiKey), new GoogleAIProvider(apiKey)
NewAdapter(kind, apiKey) ==
    /\ standalone = None
    /\ standalone' = Some(Adapter(kind, apiKey))
    /\ lastCall' = Call("new", [kind |-> kind, apiKey |-> apiKey], "constructed")
    /\ UNCHANGED <<adapterVars, otherVars, adhoc, calls, config, builtFrom, providers, service, resolved>>

\* isAvailable() of that adapter
AdapterIsAvailable ==
    /\ standalone # None
    /\ lastCall' = Call("isAvailable", standalone[1], isAvailable(standalone[1]))
    /\ UNCHANGED resolved
    /\ ServiceFrame

ServiceNext ==
    \/ \E cfg \in AppConfigs : Construct(cfg)
    \/ \E cfg \in AppConfigsLater : ConfigChanges(cfg)
    \/ \E modelId \in ModelIdsAsked : GetProviderForModel(modelId)
    \/ \E p \in ProvidersAsked : IsProviderAvailable(p)
    \/ GetAvailableProviders
    \/ \E kind \in Providers, apiKey \in {<<>>, SecretKey} : NewAdapter(kind, apiKey)
    \/ AdapterIsAvailable

ServiceSpec == Init /\ [][ServiceNext]_vars

(***************************************************************************)
(* ModelService construction when the constructor of an adapter throws     *)
(* (AnthropicProvider requires node-fetch where there is no global fetch;  *)
(* the SDK clients may reject their options).  The three registrations     *)
(* share one try block.                                                    *)
(***************************************************************************)
\* initializeProviders when the constructor of the adapter `thrower` throws
\* ("none": no constructor throws): the catch block ends the registrations
initializeProvidersWhere(cfg, thrower) ==
    LET empty == <<>>
        openaiThrows == HasCredential(cfg.openaiApiKey) /\ thrower = "openai"
        withOpenAI ==
          IF HasCredential(cfg.openaiApiKey) /\ ~openaiThrows
            THEN MapSet(empty, PROVIDERS_OPENAI, Adapter("openai", cfg.openaiApiKey[1]))
            ELSE empty
        anthropicThrows == HasCredential(cfg.anthropicApiKey) /\ thrower = "anthropic"
        withAnthropic ==
          IF HasCredential(cfg.anthropicApiKey) /\ ~anthropicThrows
            THEN MapSet(withOpenAI, PROVIDERS_ANTHROPIC,
                        Adapter("anthropic", cfg.anthropicApiKey[1]))
            ELSE withOpenAI
        googleThrows == HasCredential(cfg.geminiApiKey) /\ thrower = "google"
    IN  IF openaiThrows THEN empty
        ELSE IF anthropicThrows THEN withOpenAI
        ELSE IF HasCredential(cfg.geminiApiKey) /\ ~googleThrows
          THEN MapSet(withAnthropic, PROVIDERS_GOOGLE,
                      Adapter("google", cfg.geminiApiKey[1]))
        ELSE withAnthropic

\* new ModelService(cfg) where the constructor of the adapter `thrower` throws
ConstructWhere(cfg, thrower) ==
    /\ service = "unbuilt"
    /\ config' = cfg
    /\ builtFrom' = cfg
    /\ providers' = initializeProvidersWhere(cfg, thrower)
    /\ service' = "ready"
    /\ lastCall' = Call("constructor", [config |-> cfg, thrower |-> thrower], "constructed")
    /\ UNCHANGED <<adapterVars, otherVars, adhoc, calls, standalone, resolved>>

FaultyNext ==
    \/ \E cfg \in AppConfigs, thrower \in Providers \cup {"none"} :
          ConstructWhere(cfg, thrower)
    \/ GetAvailableProviders
    \/ \E modelId \in ModelIdsAsked : GetProviderForModel(modelId)

FaultySpec == Init /\ [][FaultyNext]_vars

(***************************************************************************)
(* ModelServiceImplementation (modelService.ts): one optional Anthropic    *)
(* client and a mock response.                                             *)
(***************************************************************************)
ClientNotInitializedText ==
    <<"A","n","t","h","r","o","p","i","c"," ","c","l","i","e","n","t"," ","n","o","t",
      " ","i","n","i","t","i","a","l","i","z","e","d","."," ","P","l","e","a","s","e",
      " ","p","r","o","v","i","d","e"," ","A","N","T","H","R","O","P","I","C","_","A",
      "P","I","_","K","E","Y",".">>

\* the message of the TypeError of reading .content of undefined
TypeErrorText ==
    <<"C","a","n","n","o","t"," ","r","e","a","d"," ","p","r","o","p","e","r","t","i",
      "e","s"," ","o","f"," ","u","n","d","e","f","i","n","e","d"," ","(","r","e","a",
      "d","i","n","g"," ","'","c","o","n","t","e","n","t","'",")">>

MockContentHead ==
    <<"/","/"," ","M","o","c","k"," ","A","I","-","g","e","n","e","r","a","t","e","d",
      " ","c","o","n","t","e","n","t"," ","f","o","r"," ","m","o","d","e","l"," ">>

MockContentBasedOn ==
    <<"\n","/","/"," ","B","a","s","e","d"," ","o","n"," ","p","r","o","m","p","t",":",
      " ">>

MockContentTail ==
    <<".",".",".","\n","f","u","n","c","t","i","o","n"," ","m","o","c","k","F","u","n",
      "c","t","i","o","n","(",")"," ","{","\n"," "," ","c","o","n","s","o","l","e",".",
      "l","o","g","(","\"","H","e","l","l","o"," ","f","r","o","m"," ","m","o","c","k",
      " ","A","I","!","\"",")",";","\n","}","\n">>

\* const mockContent, for a non-empty params.messages
mockContent(p) ==
    MockContentHead \o p.model \o MockContentBasedOn
      \o substring(p.messages[Len(p.messages)].content, 0, MockPromptLen) \o MockContentTail

\* const mockUsage; the counts are length / 4 and not rounded, so the model keeps
\* them in quarters of a token
mockUsage(p) ==
    LET promptTokens == SumSeq([i \in 1..Len(p.messages) |-> Len(p.messages[i].content)])
        completionTokens == Len(mockContent(p))
    IN  [promptTokens |-> promptTokens, completionTokens |-> completionTokens,
         totalTokens |-> promptTokens + completionTokens]

\* const requestBody
AdHocRequestBody(p) ==
    [model |-> p.model, messages |-> p.messages,
     max_tokens |-> IF p.maxTokens = None \/ p.maxTokens = Some(0) THEN 1024
                    ELSE p.maxTokens[1],
     system |-> p.system]

\* response.content.map(block => block.type === 'text' ? block.text : '').join('')
AdHocResponseContent(blocks) ==
    join([i \in 1..Len(blocks) |->
             IF blocks[i].type = <<"t","e","x","t">> THEN blocks[i].text ELSE <<>>], <<>>)

\* constructor: this.anthropic is set when process.env.ANTHROPIC_API_KEY is truthy
NewModelServiceImplementation(envKey) ==
    /\ adhoc.pc \in {"idle", "done"}
    /\ adhoc' = [AdHocUnbuilt EXCEPT !.service = "ready", !.anthropic = Truthy(envKey)]
    /\ UNCHANGED <<adapterVars, otherVars, config, builtFrom, providers, service, standalone,
                   lastCall, resolved, calls>>

\* generate, up to its first await
AdHocGenerate(p) ==
    /\ adhoc.service = "ready"
    /\ adhoc.pc \in {"idle", "done"}
    /\ LET fresh == [AdHocUnbuilt EXCEPT !.service = "ready",
                                          !.anthropic = adhoc.anthropic,
                                          !.params = p]
       IN  adhoc' =
             IF p.provider = PROVIDERS_ANTHROPIC /\ adhoc.anthropic
               THEN [fresh EXCEPT !.pc = "create",
                                  !.request = Some(AdHocRequestBody(p))]
             ELSE IF p.provider = PROVIDERS_ANTHROPIC /\ ~adhoc.anthropic
               THEN [fresh EXCEPT !.pc = "done", !.outcome = "rejected",
                                  !.error = ClientNotInitializedText]
             ELSE [fresh EXCEPT !.pc = "timer", !.fallback = TRUE]
    /\ UNCHANGED <<adapterVars, otherVars, config, builtFrom, providers, service, standalone,
                   lastCall, resolved, calls>>

\* this.anthropic.messages.create returns
AdHocCreateReturns(resp) ==
    /\ adhoc.pc = "create"
    /\ adhoc' = [adhoc EXCEPT !.pc = "done", !.outcome = "resolved",
                              !.content = AdHocResponseContent(resp.content),
                              !.usage = Some(resp.usage)]
    /\ UNCHANGED <<adapterVars, otherVars, config, builtFrom, providers, service, standalone,
                   lastCall, resolved, calls>>

\* this.anthropic.messages.create throws: the catch block
AdHocCreateThrows(errorMessage) ==
    /\ adhoc.pc = "create"
    /\ adhoc' = [adhoc EXCEPT !.pc = "done", !.outcome = "rejected",
                              !.error = AnthropicApiErrorPrefix \o errorMessage]
    /\ UNCHANGED <<adapterVars, otherVars, config, builtFrom, providers, service, standalone,
                   lastCall, resolved, calls>>

\* the 500 ms timer of the mock path fires: the mock response
AdHocTimerFires ==
    /\ adhoc.pc = "timer"
    /\ adhoc' = IF adhoc.params.messages = <<>>
                  THEN [adhoc EXCEPT !.pc = "done", !.outcome = "rejected",
                                     !.error = TypeErrorText]
                  ELSE [adhoc EXCEPT !.pc = "done", !.outcome = "resolved",
                                     !.content = mockContent(adhoc.params),
                                     !.usage = Some(mockUsage(adhoc.params))]
    /\ UNCHANGED <<adapterVars, otherVars, config, builtFrom, providers, service, standalone,
                   lastCall, resolved, calls>>

\* process.env.ANTHROPIC_API_KEY: unset, empty, set
EnvKeys == {None, Some(<<>>), Some(SecretKey)}

AdHocMessageSequences ==
    {<<>>,
     <<[role |-> "user", content |-> PromptHello]>>,
     <<[role |-> "user", content |-> PromptHello],
       [role |-> "user", content |-> Text(MockPromptLen + 2)]>>}

AdHocRequests ==
    {AdHocParams(prov, model, msgs, systemOption, maxTokens) :
        prov \in {PROVIDERS_ANTHROPIC, PROVIDERS_OPENAI},
        model \in {MODEL_IDS_CLAUDE_3_OPUS, MODEL_IDS_GPT_4},
        msgs \in AdHocMessageSequences,
        systemOption \in {None, Some(SystemBrief)},
        maxTokens \in {None, Some(0), Some(256)}}

\* what messages.create returns: content blocks { type, text } and a usage
AdHocBackendResponses ==
    {[content |-> blocks, usage |-> [input_tokens |-> 5, output_tokens |-> 2]] :
        blocks \in {<<>>,
                    <<[type |-> <<"t","e","x","t">>, text |-> <<"o", "k">>]>>,
                    <<[type |-> <<"t","e","x","t">>, text |-> <<"o", "k">>],
                      [type |-> <<"t","o","o","l","_","u","s","e">>, text |-> <<>>],
                      [type |-> <<"t","e","x","t">>, text |-> <<"!">>]>>}}

AdHocNext ==
    \/ \E envKey \in EnvKeys : NewModelServiceImplementation(envKey)
    \/ \E p \in AdHocRequests : AdHocGenerate(p)
    \/ \E resp \in AdHocBackendResponses : AdHocCreateReturns(resp)
    \/ \E e \in ErrorTexts : AdHocCreateThrows(e)
    \/ AdHocTimerFires

AdHocSpec == Init /\ [][AdHocNext]_vars

(***************************************************************************)
(* Calls in progress at once.  An adapter holds its client and its key and *)
(* nothing else; retries, delay and accumulatedContent are locals of the   *)
(* call, streamId and onChunk are its arguments.  Each call c runs         *)
(* GoogleAIProvider.generate or OpenAIProvider.generateStream, and a step  *)
(* of any call may come between two steps of another.  onChunk returns     *)
(* normally here.                                                          *)
(***************************************************************************)
\* one item the stream of a call yielded
DeltaEvent(contentDelta) ==
    [kind |-> "delta", ok |-> TRUE, errorMessage |-> <<>>, content |-> contentDelta,
     ms |-> 0, returned |-> None]

\* a chunk passed to the onChunk of a call
CallChunk(streamId, type, text, isFinal) ==
    [streamId |-> streamId, type |-> type, text |-> text, isFinal |-> isFinal]

ConcurrentFrame ==
    UNCHANGED <<adapterVars, otherVars, config, builtFrom, providers, service, standalone, lastCall,
                resolved, adhoc>>

\* GoogleAIProvider.generate starts: let retries = 0, let delay = 1000
CallGoogleGenerate(c) ==
    /\ calls[c].pc \in {"idle", "done"}
    /\ calls' = [calls EXCEPT ![c] = [CallIdle EXCEPT !.op = "generate",
                                                      !.pc = "attempt",
                                                      !.retries = 0,
                                                      !.delay = initialDelay]]
    /\ ConcurrentFrame

\* the backend call of call c returns
CallGoogleAttemptReturns(c, content) ==
    /\ calls[c].op = "generate" /\ calls[c].pc = "attempt"
    /\ calls' = [calls EXCEPT ![c].events = Append(@, AttemptEvent(TRUE, <<>>, content)),
                              ![c].outcome = "resolved",
                              ![c].content = content,
                              ![c].pc = "done"]
    /\ ConcurrentFrame

\* the backend call of call c throws: the catch block
CallGoogleAttemptThrows(c, errorMessage) ==
    /\ calls[c].op = "generate" /\ calls[c].pc = "attempt"
    /\ calls' =
         IF GoogleShouldRetry(errorMessage, calls[c].retries)
           THEN [calls EXCEPT ![c].events = @ \o <<AttemptEvent(FALSE, errorMessage, <<>>),
                                                   WaitEvent(calls[c].delay)>>,
                              ![c].pc = "wait"]
           ELSE [calls EXCEPT ![c].events = Append(@, AttemptEvent(FALSE, errorMessage, <<>>)),
                              ![c].outcome = "rejected",
                              ![c].content = GoogleApiErrorPrefix \o errorMessage,
                              ![c].pc = "done"]
    /\ ConcurrentFrame

\* a variant of CallGoogleBackoffElapsed: retries and delay are kept by the adapter,
\* one counter and one delay for all its calls
CallGoogleBackoffElapsedShared(c) ==
    /\ calls[c].op = "generate" /\ calls[c].pc = "wait"
    /\ calls' = [d \in CallIds |->
                   IF d = c
                     THEN [calls[c] EXCEPT !.retries = @ + 1, !.delay = NextDelay(@),
                                           !.pc = "attempt"]
                   ELSE IF calls[d].op = "generate" /\ calls[d].pc # "done"
                     THEN [calls[d] EXCEPT !.retries = calls[c].retries + 1,
                                           !.delay = NextDelay(calls[c].delay)]
                   ELSE calls[d]]
    /\ ConcurrentFrame

\* the backoff timer of call c fires: retries++, delay *= 2, continue
CallGoogleBackoffElapsed(c) ==
    /\ calls[c].op = "generate" /\ calls[c].pc = "wait"
    /\ calls' =
         IF GoogleLoopCondition(calls[c].retries + 1)
           THEN [calls EXCEPT ![c].retries = @ + 1, ![c].delay = NextDelay(@),
                              ![c].pc = "attempt"]
           ELSE [calls EXCEPT ![c].retries = @ + 1, ![c].delay = NextDelay(@),
                              ![c].outcome = "rejected",
                              ![c].content = GoogleApiErrorPrefix \o MaxRetryText,
                              ![c].pc = "done"]
    /\ ConcurrentFrame

\* OpenAIProvider.generateStream(params, streamId, onChunk) starts:
\* let accumulatedContent = '', then chat.completions.create is awaited
CallOpenAIGenerateStream(c, streamId) ==
    /\ calls[c].pc \in {"idle", "done"}
    /\ calls' = [calls EXCEPT ![c] = [CallIdle EXCEPT !.op = "generateStream",
                                                      !.pc = "create",
                                                      !.streamId = streamId]]
    /\ ConcurrentFrame

\* chat.completions.create of call c returns the stream
CallStreamCreated(c) ==
    /\ calls[c].op = "generateStream" /\ calls[c].pc = "create"
    /\ calls' = [calls EXCEPT ![c].pc = "streaming"]
    /\ ConcurrentFrame

\* the stream of call c yields one item: one turn of the for await loop
CallStreamNext(c, contentDelta) ==
    /\ calls[c].op = "generateStream" /\ calls[c].pc = "streaming"
    /\ Len(calls[c].events) < MaxStreamItems
    /\ calls' =
         IF contentDelta # <<>>
           THEN [calls EXCEPT ![c].events = Append(@, DeltaEvent(contentDelta)),
                              ![c].accumulatedContent = @ \o contentDelta,
                              ![c].received =
                                  Append(@, CallChunk(calls[c].streamId, "content_delta",
                                                      contentDelta, FALSE))]
           ELSE [calls EXCEPT ![c].events = Append(@, DeltaEvent(contentDelta))]
    /\ ConcurrentFrame

\* the stream of call c ends: the final chunk and the response
CallStreamEnds(c) ==
    /\ calls[c].op = "generateStream" /\ calls[c].pc = "streaming"
    /\ calls' = [calls EXCEPT ![c].received =
                                  Append(@, CallChunk(calls[c].streamId, "content_delta",
                                                      <<>>, TRUE)),
                              ![c].outcome = "resolved",
                              ![c].content = calls[c].accumulatedContent,
                              ![c].pc = "done"]
    /\ ConcurrentFrame

\* create or the stream of call c throws: the catch block
CallStreamThrows(c, errorMessage) ==
    /\ calls[c].op = "generateStream" /\ calls[c].pc \in {"create", "streaming"}
    /\ calls' = [calls EXCEPT ![c].events = Append(@, AttemptEvent(FALSE, errorMessage, <<>>)),
                              ![c].received =
                                  Append(@, CallChunk(calls[c].streamId, "error",
                                                      errorMessage, TRUE)),
                              ![c].outcome = "rejected",
                              ![c].content = OpenAIStreamingErrorPrefix \o errorMessage,
                              ![c].pc = "done"]
    /\ ConcurrentFrame

\* the streamId arguments; two calls may be given the same one
StreamIds == {<<"s", "1">>, <<"s", "2">>}

ConcurrentDeltas == {<<>>, <<"a">>, <<"b", "c">>}

ConcurrentErrors == {ErrRate, ErrAuth}

ConcurrentNext ==
    \E c \in CallIds :
       \/ CallGoogleGenerate(c)
       \/ CallGoogleAttemptReturns(c, Text(2))
       \/ \E e \in ConcurrentErrors : CallGoogleAttemptThrows(c, e)
       \/ CallGoogleBackoffElapsed(c)
       \/ \E streamId \in StreamIds : CallOpenAIGenerateStream(c, streamId)
       \/ CallStreamCreated(c)
       \/ \E contentDelta \in ConcurrentDeltas : CallStreamNext(c, contentDelta)
       \/ CallStreamEnds(c)
       \/ \E e \in ConcurrentErrors : CallStreamThrows(c, e)

ConcurrentSpec == Init /\ [][ConcurrentNext]_vars

(***************************************************************************)
(* BaseModelProvider.generateStream, as inherited by an adapter that does  *)
(* not override it: generate is abstract, so what it resolves with or      *)
(* throws is chosen by the adapter.                                        *)
(***************************************************************************)
\* chunkId: params.requestId || `${streamId}-${new Date().toISOString()}`
BaseChunkId(requestId, streamId, ms) ==
    IF Truthy(requestId) THEN [requestId |-> requestId[1], streamId |-> <<>>, ms |-> 0]
    ELSE [requestId |-> <<>>, streamId |-> streamId, ms |-> ms]

\* the chunk passed to onChunk
BaseChunk(requestId, streamId, resp, ms) ==
    [streamId |-> streamId, chunkId |-> BaseChunkId(requestId, streamId, ms),
     type |-> "content_delta", text |-> resp.content, isFinal |-> TRUE,
     modelId |-> resp.modelId, usage |-> resp.usage, provider |-> resp.provider]

BaseFrame == UNCHANGED <<modelVars, cache, email>>

\* generateStream starts: this.generate(params) is awaited
BaseGenerateStream(req, requestId, streamId) ==
    /\ base.pc \in {"idle", "done"}
    /\ base' = [BaseIdle EXCEPT !.pc = "generate", !.params = req,
                                !.requestId = requestId, !.streamId = streamId,
                                !.generateCalls = 1]
    /\ BaseFrame

\* generate resolves: the single chunk, then the response is returned (or the
\* error of onChunk leaves the method)
BaseGenerateResolves(resp, sinkThrows) ==
    /\ base.pc = "generate"
    /\ base' = [base EXCEPT !.pc = "done",
                            !.chunks = Append(@, BaseChunk(base.requestId, base.streamId,
                                                           resp, now)),
                            !.outcome = IF sinkThrows THEN "rejected" ELSE "resolved",
                            !.response = IF sinkThrows THEN None ELSE Some(resp),
                            !.error = IF sinkThrows THEN SinkErrorText ELSE <<>>]
    /\ BaseFrame

\* a variant of BaseGenerateRejects: an error chunk is passed to onChunk first
BaseGenerateRejectsWithChunk(errorMessage) ==
    /\ base.pc = "generate"
    /\ base' = [base EXCEPT !.pc = "done",
                            !.chunks = Append(@, [type |-> "error", text |-> errorMessage,
                                                  isFinal |-> TRUE]),
                            !.outcome = "rejected",
                            !.error = errorMessage]
    /\ BaseFrame

\* generate rejects: its error leaves generateStream
BaseGenerateRejects(errorMessage) ==
    /\ base.pc = "generate"
    /\ base' = [base EXCEPT !.pc = "done", !.outcome = "rejected",
                            !.error = errorMessage]
    /\ BaseFrame

BaseRequests ==
    {Request(UnknownModelId, prompt, sp) :
        prompt \in {StringPrompt(PromptHello), ArrayPrompt(<<MessageAt(MessageRole_USER, 1)>>)},
        sp \in {None, Some(SystemBrief)}}

BaseRequestIds == {None, Some(<<>>), Some(<<"r", "1">>)}

\* what the adapter's generate resolves with
BaseResponses ==
    {Response(UnknownModelId, "custom", content,
              Usage(5, Len(content), 5 + Len(content), 0)) :
        content \in {<<>>, Text(2), Text(chunkSize + 2)}}

BaseNext ==
    \/ \E req \in BaseRequests, requestId \in BaseRequestIds, streamId \in StreamIds :
          BaseGenerateStream(req, requestId, streamId)
    \/ \E resp \in BaseResponses, sinkThrows \in BOOLEAN :
          BaseGenerateResolves(resp, sinkThrows)
    \/ \E e \in ErrorTexts : BaseGenerateRejects(e)

BaseSpec == Init /\ [][BaseNext]_vars

(***************************************************************************)
(* CacheService (cacheService.ts) and the Redis client behind it.          *)
(* A stored entry is the cacheData object { value, compressed, timestamp,  *)
(* ttl }; its JSON text is kept as the record, with parsable = FALSE for a *)
(* text under the key that JSON.parse rejects.  The value inside is a JSON *)
(* text, a string of characters, written and read by the operators below.  *)
(***************************************************************************)
NullText == <<"n", "u", "l", "l">>

Quote == <<"\"">>

\* JSON.stringify(value): undefined for undefined (None), "null" for NaN and null
JSONstringifyValue(v) ==
    CASE v.t = "string" -> Some(Quote \o v.s \o Quote)
      [] v.t = "undefined" -> None
      [] OTHER -> Some(NullText)

\* JSON.parse(text) of the texts the model holds; None when it throws
JSONparseValue(text) ==
    IF text = NullText THEN Some(NullValue)
    ELSE IF Len(text) >= 2 /\ text[1] = "\"" /\ text[Len(text)] = "\""
      THEN Some(CacheValue("string", SubSeq(text, 2, Len(text) - 1)))
    ELSE None

\* zlib.gzipSync(data).toString('base64'): the first element stands for the
\* gzip header, the rest for the deflated data
gzipBase64(data) == <<"H4sI">> \o data

\* zlib.gunzipSync(Buffer.from(data, 'base64')).toString(); None when it throws
gunzipBase64(data) ==
    IF data # <<>> /\ data[1] = "H4sI" THEN Some(Tail(data)) ELSE None

compressData(data) ==
    IF Len(data) > COMPRESSION_THRESHOLD THEN gzipBase64(data) ELSE data

\* None when it throws
decompressData(data, compressed) ==
    IF compressed THEN gunzipBase64(data) ELSE Some(data)

MiktosPrefix == <<"m", "i", "k", "t", "o", "s", ":">>

\* the first 32 hex digits of the SHA-256 of JSON.stringify(data): one atom per
\* object, different objects having different digests
HashOf(data) == <<"#">> \o data

generateKey(data, namespace) ==
    LET prefix == IF Truthy(namespace) THEN MiktosPrefix \o namespace[1] \o <<":">>
                  ELSE MiktosPrefix
        key == prefix \o HashOf(data)
    IN  IF Len(key) > MAX_KEY_LENGTH THEN substring(key, 0, MAX_KEY_LENGTH) ELSE key

\* typeof key === 'string' ? key : this.generateKey(key, namespace)
cacheKeyOf(keyArg, namespace) ==
    IF keyArg.isString THEN keyArg.text ELSE generateKey(keyArg.text, namespace)

CacheEntry(value, compressed, timestamp, ttl) ==
    [parsable |-> TRUE, value |-> value, compressed |-> compressed,
     timestamp |-> timestamp, ttl |-> ttl]

\* a text under a key that is not JSON
UnparsableEntry == [parsable |-> FALSE, value |-> <<>>, compressed |-> FALSE,
                    timestamp |-> 0, ttl |-> 0]

\* the keys pattern matches: 'miktos:*' and '*' are the patterns of the model
PatternMatches(pattern, key) ==
    IF pattern = <<"*">> THEN TRUE ELSE startsWith(key, MiktosPrefix)

\* the arguments of the operations
StringKey == [isString |-> TRUE, text |-> <<"k">>]

ObjectKey == [isString |-> FALSE, text |-> <<"o", "b", "j">>]

CacheKeyArgs == {StringKey, ObjectKey}

CacheKeys == {cacheKeyOf(keyArg, None) : keyArg \in CacheKeyArgs}

ShortValue == CacheValue("string", <<"h", "i">>)

\* the longest string that is stored as it is, and the shortest that is compressed
BorderValue == CacheValue("string", Text(COMPRESSION_THRESHOLD - 2))

LongValue == CacheValue("string", Text(COMPRESSION_THRESHOLD - 1))

SetArgs(keyArg, value, ttl, compress) ==
    [keyArg |-> keyArg, value |-> value, ttl |-> ttl, compress |-> compress]

\* the set calls of the model: under the object key every kind of value, ttl and
\* compress; under the string key one short value
CacheSets ==
    {SetArgs(ObjectKey, ShortValue, None, None),
     SetArgs(ObjectKey, ShortValue, Some(0), Some(TRUE)),
     SetArgs(ObjectKey, BorderValue, Some(60), None),
     SetArgs(ObjectKey, LongValue, None, None),
     SetArgs(ObjectKey, LongValue, Some(60), Some(TRUE)),
     SetArgs(ObjectKey, LongValue, Some(60), Some(FALSE)),
     SetArgs(ObjectKey, CacheValue("NaN", <<>>), None, None),
     SetArgs(ObjectKey, CacheValue("undefined", <<>>), None, None),
     SetArgs(StringKey, ShortValue, Some(60), None)}

CachePatterns == {None, Some(<<>>), Some(<<"*">>)}

\* what another writer may leave under a key
ForeignEntries ==
    {UnparsableEntry,
     CacheEntry(<<"x">>, TRUE, 0, 60),
     CacheEntry(<<"{">>, FALSE, 0, 60)}

CacheFrame == UNCHANGED <<modelVars, base, email>>

\* this.isConnected && this.redis
CacheAvailable == cache.isConnected /\ cache.redis

\* an operation is called: what its caller observes starts empty
CacheCalled(o) ==
    [cache EXCEPT !.op = o, !.pc = "called", !.pending = <<>>, !.gated = FALSE,
                  !.issued = FALSE, !.threw = FALSE, !.outcome = "none", !.result = <<>>,
                  !.hitsBefore = cache.hits, !.missesBefore = cache.misses]

\* the operation returns result
CacheReturns(c, result) == [c EXCEPT !.pc = "done", !.outcome = "returned",
                                     !.result = result]

\* the Redis command awaited threw
CacheCaught(c) == [c EXCEPT !.threw = TRUE]

\* the operation sends a Redis command and awaits it
CacheAwaits(c, command, pending) ==
    [c EXCEPT !.pc = command, !.issued = TRUE, !.pending = pending]

CacheIdle == cache.service = "ready" /\ cache.pc \in {"idle", "done"}

\* constructor and the synchronous part of initializeRedis: configured is whether
\* REDIS_URL or REDIS_HOST is set, createThrows whether createClient throws
NewCacheService(configured, createThrows) ==
    /\ cache.service = "unbuilt"
    /\ cache' = [CacheUnbuilt EXCEPT
                   !.service = "ready",
                   !.redis = configured /\ ~createThrows,
                   !.link = IF configured /\ ~createThrows THEN "connecting" ELSE "none",
                   !.store = [k \in CacheKeys |-> None],
                   !.written = [k \in CacheKeys |-> None]]
    /\ CacheFrame

\* the handler of 'connect'
RedisConnectEvent ==
    /\ cache.link = "connecting"
    /\ cache' = [cache EXCEPT !.isConnected = TRUE, !.lastEvent = "connect",
                              !.link = "connected"]
    /\ CacheFrame

\* the handler of 'ready'
RedisReadyEvent ==
    /\ cache.link = "connected"
    /\ cache' = [cache EXCEPT !.isConnected = TRUE, !.lastEvent = "ready", !.link = "up"]
    /\ CacheFrame

\* a variant of RedisErrorEvent: the handler only logs
RedisErrorEventLogsOnly ==
    /\ cache.link \in {"connecting", "connected", "up"}
    /\ cache' = [cache EXCEPT !.lastEvent = "error", !.link = "down"]
    /\ CacheFrame

\* the handler of 'error'
RedisErrorEvent ==
    /\ cache.link \in {"connecting", "connected", "up"}
    /\ cache' = [cache EXCEPT !.isConnected = FALSE, !.lastEvent = "error",
                              !.link = "down"]
    /\ CacheFrame

\* the handler of 'reconnecting' only logs
RedisReconnectingEvent ==
    /\ cache.link = "down"
    /\ cache' = [cache EXCEPT !.lastEvent = "reconnecting", !.link = "connecting"]
    /\ CacheFrame

\* the handler of 'end'
RedisEndEvent ==
    /\ cache.link = "closing"
    /\ cache' = [cache EXCEPT !.isConnected = FALSE, !.lastEvent = "end",
                              !.link = "closed"]
    /\ CacheFrame

\* this.redis.connect() rejects before the client ever connected: the catch block
RedisConnectRejects ==
    /\ cache.link = "connecting" /\ cache.lastEvent = "none"
    /\ cache' = [cache EXCEPT !.isConnected = FALSE, !.link = "failed"]
    /\ CacheFrame

\* the entry under a key expires
KeyExpires(k) ==
    /\ cache.service = "ready" /\ cache.store[k] # None
    /\ cache' = [cache EXCEPT !.store[k] = None, !.written[k] = None]
    /\ CacheFrame

\* another client of the same Redis writes under a key
ForeignWrite(k, entry) ==
    /\ cache.service = "ready"
    /\ cache' = [cache EXCEPT !.store[k] = Some([data |-> entry, ttl |-> entry.ttl]),
                              !.written[k] = None]
    /\ CacheFrame

\* a Redis command may return when the connection is ready; it may throw at any time
ReplyPossible(ok) == ok => cache.link = "up"

CacheOp(name, key, value, ttl, compress, pattern) ==
    [name |-> name, key |-> key, value |-> value, ttl |-> ttl, compress |-> compress,
     pattern |-> pattern]

\* options.ttl || this.DEFAULT_TTL
ttlOf(ttl) == IF ttl = None \/ ttl = Some(0) THEN DEFAULT_TTL ELSE ttl[1]

\* set, up to the await of setEx (serializedValue.length throws for undefined)
CacheSet(keyArg, value, ttl, compress) ==
    /\ CacheIdle
    /\ LET c == CacheCalled(CacheOp("set", cacheKeyOf(keyArg, None), value, ttl, compress,
                                    None))
           serializedValue == JSONstringifyValue(value)
       IN  cache' =
             IF ~CacheAvailable THEN CacheReturns([c EXCEPT !.gated = TRUE], FALSE)
             ELSE IF serializedValue = None THEN CacheReturns(c, FALSE)
             ELSE LET shouldCompress ==
                        /\ compress # Some(FALSE)
                        /\ Len(serializedValue[1]) > COMPRESSION_THRESHOLD
                      finalValue == IF shouldCompress THEN compressData(serializedValue[1])
                                    ELSE serializedValue[1]
                  IN  CacheAwaits(c, "setEx",
                                  [ttl |-> ttlOf(ttl),
                                   data |-> CacheEntry(finalValue, shouldCompress, now,
                                                       ttlOf(ttl))])
    /\ CacheFrame

\* setEx returns or throws
CacheSetExReplies(ok) ==
    /\ cache.pc = "setEx" /\ ReplyPossible(ok)
    /\ cache' =
         IF ok THEN CacheReturns([cache EXCEPT !.store[cache.op.key] = Some(cache.pending),
                                               !.written[cache.op.key] = Some(cache.op)],
                                 TRUE)
         ELSE CacheReturns(CacheCaught(cache), FALSE)
    /\ CacheFrame

\* get, up to the await of redis.get
CacheGet(keyArg) ==
    /\ CacheIdle
    /\ cache.hits + cache.misses < MaxGets
    /\ LET c == CacheCalled(CacheOp("get", cacheKeyOf(keyArg, None), NullValue, None, None,
                                    None))
       IN  cache' =
             IF ~CacheAvailable
               THEN CacheReturns([c EXCEPT !.gated = TRUE, !.misses = @ + 1], NullValue)
             ELSE CacheAwaits(c, "get", <<>>)
    /\ CacheFrame

\* what get returns for the text cached, after this.stats.hits++: None when
\* JSON.parse or decompressData throws
CachedValue(entry) ==
    IF ~entry.parsable THEN None
    ELSE LET decompressedValue == decompressData(entry.value, entry.compressed)
         IN  IF decompressedValue = None THEN None
             ELSE JSONparseValue(decompressedValue[1])

\* redis.get returns or throws
CacheGetReplies(ok) ==
    /\ cache.pc = "get" /\ ReplyPossible(ok)
    /\ LET cached == cache.store[cache.op.key]
       IN  cache' =
             IF ~ok
               THEN CacheReturns([cache EXCEPT !.misses = @ + 1, !.threw = TRUE],
                                 NullValue)
             ELSE IF cached = None
               THEN CacheReturns([cache EXCEPT !.misses = @ + 1], NullValue)
             ELSE IF CachedValue(cached[1].data) = None
               THEN CacheReturns([cache EXCEPT !.hits = @ + 1, !.misses = @ + 1],
                                 NullValue)
             ELSE CacheReturns([cache EXCEPT !.hits = @ + 1],
                               CachedValue(cached[1].data)[1])
    /\ CacheFrame

\* delete and exists, up to the await of their command
CacheDeleteOrExists(name, keyArg) ==
    /\ CacheIdle
    /\ LET c == CacheCalled(CacheOp(name, cacheKeyOf(keyArg, None), NullValue, None, None,
                                    None))
       IN  cache' = IF ~CacheAvailable THEN CacheReturns([c EXCEPT !.gated = TRUE], FALSE)
                    ELSE CacheAwaits(c, name, <<>>)
    /\ CacheFrame

\* redis.del(cacheKey) returns or throws
CacheDelReplies(ok) ==
    /\ cache.pc = "delete" /\ ReplyPossible(ok)
    /\ cache' =
         IF ok THEN CacheReturns([cache EXCEPT !.store[cache.op.key] = None,
                                               !.written[cache.op.key] = None],
                                 cache.store[cache.op.key] # None)
         ELSE CacheReturns(CacheCaught(cache), FALSE)
    /\ CacheFrame

\* redis.exists returns or throws
CacheExistsReplies(ok) ==
    /\ cache.pc = "exists" /\ ReplyPossible(ok)
    /\ cache' = IF ok THEN CacheReturns(cache, cache.store[cache.op.key] # None)
                ELSE CacheReturns(CacheCaught(cache), FALSE)
    /\ CacheFrame

\* clear, up to the await of redis.keys
CacheClear(pattern) ==
    /\ CacheIdle
    /\ LET c == CacheCalled(CacheOp("clear", <<>>, NullValue, None, None, pattern))
       IN  cache' = IF ~CacheAvailable THEN CacheReturns([c EXCEPT !.gated = TRUE], 0)
                    ELSE CacheAwaits(c, "keys", <<>>)
    /\ CacheFrame

\* redis.keys returns or throws; redis.del(keys) is awaited when there are keys
CacheKeysReplies(ok) ==
    /\ cache.pc = "keys" /\ ReplyPossible(ok)
    /\ LET searchPattern == IF Truthy(cache.op.pattern) THEN cache.op.pattern[1]
                            ELSE MiktosPrefix \o <<"*">>
           keys == {k \in CacheKeys :
                      cache.store[k] # None /\ PatternMatches(searchPattern, k)}
       IN  cache' = IF ~ok THEN CacheReturns(CacheCaught(cache), 0)
                    ELSE IF keys = {} THEN CacheReturns(cache, 0)
                    ELSE CacheAwaits(cache, "clearDel", keys)
    /\ CacheFrame

\* redis.del(keys) returns or throws
CacheClearDelReplies(ok) ==
    /\ cache.pc = "clearDel" /\ ReplyPossible(ok)
    /\ LET there == {k \in cache.pending : cache.store[k] # None}
       IN  cache' =
             IF ok THEN CacheReturns(
                          [cache EXCEPT
                             !.store = [k \in CacheKeys |->
                                          IF k \in there THEN None ELSE cache.store[k]],
                             !.written = [k \in CacheKeys |->
                                            IF k \in there THEN None ELSE cache.written[k]]],
                          Cardinality(there))
             ELSE CacheReturns(CacheCaught(cache), 0)
    /\ CacheFrame

CacheStats(hits, misses, hitRate, totalKeys, memoryUsage) ==
    [hits |-> hits, misses |-> misses, hitRate |-> hitRate, totalKeys |-> totalKeys,
     memoryUsage |-> memoryUsage]

\* parseFloat((hitRate * 100).toFixed(2)), in hundredths of a percent
HitRate(hits, misses) ==
    IF hits + misses > 0 THEN (2 * hits * 10000 + (hits + misses)) \div (2 * (hits + misses))
    ELSE 0

\* parseMemoryInfo(info): the number of the used_memory line, 0 without one
parseMemoryInfo(usedMemory) == IF usedMemory = None THEN 0 ELSE usedMemory[1]

\* the stats of the catch block of getStats
CacheStatsFallback(c) == CacheStats(c.hits, c.misses, 0, 0, 0)

\* getStats, up to the await of redis.info (reading info of undefined throws)
CacheGetStats ==
    /\ CacheIdle
    /\ LET c == CacheCalled(CacheOp("getStats", <<>>, NullValue, None, None, None))
       IN  cache' = IF ~cache.redis THEN CacheReturns(c, CacheStatsFallback(c))
                    ELSE CacheAwaits(c, "info", <<>>)
    /\ CacheFrame

\* redis.info returns (usedMemory is the used_memory line, if there is one) or
\* throws; redis.dbSize is awaited next
CacheInfoReplies(ok, usedMemory) ==
    /\ cache.pc = "info" /\ ReplyPossible(ok)
    /\ cache' = IF ok THEN CacheAwaits(cache, "dbSize", usedMemory)
                ELSE CacheReturns(CacheCaught(cache), CacheStatsFallback(cache))
    /\ CacheFrame

\* redis.dbSize returns or throws
CacheDbSizeReplies(ok) ==
    /\ cache.pc = "dbSize" /\ ReplyPossible(ok)
    /\ cache' =
         IF ok THEN CacheReturns(cache,
                                 CacheStats(cache.hits, cache.misses,
                                            HitRate(cache.hits, cache.misses),
                                            Cardinality({k \in CacheKeys :
                                                           cache.store[k] # None}),
                                            parseMemoryInfo(cache.pending)))
         ELSE CacheReturns(CacheCaught(cache), CacheStatsFallback(cache))
    /\ CacheFrame

\* resetStats
CacheResetStats ==
    /\ CacheIdle
    /\ cache' = [CacheCalled(CacheOp("resetStats", <<>>, NullValue, None, None, None))
                   EXCEPT !.hits = 0, !.misses = 0, !.pc = "done", !.outcome = "returned"]
    /\ CacheFrame

\* healthCheck, up to the await of redis.ping
CacheHealthCheck ==
    /\ CacheIdle
    /\ LET c == CacheCalled(CacheOp("healthCheck", <<>>, NullValue, None, None, None))
       IN  cache' = IF ~cache.redis THEN CacheReturns(c, "disabled")
                    ELSE CacheAwaits(c, "ping", <<>>)
    /\ CacheFrame

\* redis.ping returns or throws
CachePingReplies(ok) ==
    /\ cache.pc = "ping" /\ ReplyPossible(ok)
    /\ cache' = IF ok THEN CacheReturns(cache, "healthy")
                ELSE CacheReturns(CacheCaught(cache), "unhealthy")
    /\ CacheFrame

\* a variant of CacheClose: redis.quit is read outside the try block
CacheCloseUnguarded ==
    /\ CacheIdle
    /\ LET c == CacheCalled(CacheOp("close", <<>>, NullValue, None, None, None))
       IN  cache' = IF ~cache.redis
                      THEN [c EXCEPT !.pc = "done", !.outcome = "rejected"]
                    ELSE CacheAwaits(c, "quit", <<>>)
    /\ CacheFrame

\* close, up to the await of redis.quit (reading quit of undefined throws)
CacheClose ==
    /\ CacheIdle
    /\ LET c == CacheCalled(CacheOp("close", <<>>, NullValue, None, None, None))
       IN  cache' = IF ~cache.redis THEN CacheReturns(c, "void")
                    ELSE CacheAwaits(c, "quit", <<>>)
    /\ CacheFrame

\* redis.quit returns (the client then emits 'end') or throws
CacheQuitReplies(ok) ==
    /\ cache.pc = "quit" /\ ReplyPossible(ok)
    /\ cache' = IF ok THEN CacheReturns([cache EXCEPT !.link = "closing"], "void")
                ELSE CacheReturns(CacheCaught(cache), "void")
    /\ CacheFrame

CacheNext ==
    \/ \E configured \in BOOLEAN, createThrows \in BOOLEAN :
          NewCacheService(configured, createThrows)
    \/ RedisConnectEvent
    \/ RedisReadyEvent
    \/ RedisErrorEvent
    \/ RedisReconnectingEvent
    \/ RedisEndEvent
    \/ RedisConnectRejects
    \/ \E k \in CacheKeys : KeyExpires(k)
    \/ \E entry \in ForeignEntries : ForeignWrite(cacheKeyOf(ObjectKey, None), entry)
    \/ \E a \in CacheSets : CacheSet(a.keyArg, a.value, a.ttl, a.compress)
    \/ \E ok \in BOOLEAN : CacheSetExReplies(ok)
    \/ \E keyArg \in CacheKeyArgs : CacheGet(keyArg)
    \/ \E ok \in BOOLEAN : CacheGetReplies(ok)
    \/ \E name \in {"delete", "exists"}, keyArg \in CacheKeyArgs :
          CacheDeleteOrExists(name, keyArg)
    \/ \E ok \in BOOLEAN : CacheDelReplies(ok)
    \/ \E ok \in BOOLEAN : CacheExistsReplies(ok)
    \/ \E pattern \in CachePatterns : CacheClear(pattern)
    \/ \E ok \in BOOLEAN : CacheKeysReplies(ok)
    \/ \E ok \in BOOLEAN : CacheClearDelReplies(ok)
    \/ CacheGetStats
    \/ \E ok \in BOOLEAN, usedMemory \in {None, Some(2048)} : CacheInfoReplies(ok, usedMemory)
    \/ \E ok \in BOOLEAN : CacheDbSizeReplies(ok)
    \/ CacheResetStats
    \/ CacheHealthCheck
    \/ \E ok \in BOOLEAN : CachePingReplies(ok)
    \/ CacheClose
    \/ \E ok \in BOOLEAN : CacheQuitReplies(ok)

CacheSpec == Init /\ [][CacheNext]_vars

(***************************************************************************)
(* EmailService: init, the asynchronous setup of the development           *)
(* transport, and sendEmail.                                               *)
(***************************************************************************)
EmailFrame == UNCHANGED <<modelVars, base, cache>>

RECURSIVE StripTags(_)
\* html.replace(/<[^>]*>/g, ''): every '<' up to the next '>' is removed
StripTags(str) ==
    IF str = <<>> THEN <<>>
    ELSE IF Head(str) = "<" /\ \E i \in 2..Len(str) : str[i] = ">"
      THEN LET close == CHOOSE i \in 2..Len(str) :
                            str[i] = ">" /\ \A j \in 2..(i - 1) : str[j] # ">"
           IN  StripTags(SubSeq(str, close + 1, Len(str)))
    ELSE <<Head(str)>> \o StripTags(Tail(str))

DefaultFrom == <<"n", "o", "r", "e", "p", "l", "y", "@", "m", "i", "k", "t", "o", "s",
                 ".", "c", "o", "m">>
PreviewPrefix == <<"h", "t", "t", "p", "s", ":", "/", "/", "e", "t", "h", "e", "r",
                   "e", "a", "l", ".", "e", "m", "a", "i", "l", "/", "m", "e", "s",
                   "s", "a", "g", "e", "/">>
PreviewUnavailable == <<"E", "m", "a", "i", "l", " ", "s", "e", "n", "t">>

\* emailOptions of sendEmail; None when building it throws (options is null, or
\* text is falsy and html has no replace)
emailOptions(options) ==
    IF ~options.given THEN None
    ELSE IF options.text # None /\ options.text[1] # <<>>
      THEN Some([from |-> DefaultFrom, to |-> options.to, subject |-> options.subject,
                 html |-> options.html, text |-> options.text[1]])
    ELSE IF options.html = None THEN None
    ELSE Some([from |-> DefaultFrom, to |-> options.to, subject |-> options.subject,
               html |-> options.html, text |-> StripTags(options.html[1])])

\* sendEmail returns
EmailReturns(e, result) ==
    [e EXCEPT !.pc = "done", !.outcome = "returned", !.result = result]

\* init: outside production the setup of the development transport is started and
\* not awaited; in production the transporter is created at once
EmailInit(env) ==
    /\ email.env \in {"unknown", env}
    /\ email.inits < MaxInits
    /\ email' = IF env # "production"
                  THEN [email EXCEPT !.env = env, !.inits = @ + 1, !.setups = @ + 1]
                ELSE [email EXCEPT !.env = env, !.inits = @ + 1,
                                   !.transporter = "smtp"]
    /\ EmailFrame

\* setupDevTransport after createTestAccount resolved
SetupDevTransportResolves ==
    /\ email.setups > 0
    /\ email' = [email EXCEPT !.setups = @ - 1, !.transporter = "ethereal"]
    /\ EmailFrame

\* setupDevTransport after createTestAccount rejected: the error is logged
SetupDevTransportRejects ==
    /\ email.setups > 0
    /\ email' = [email EXCEPT !.setups = @ - 1, !.setupFailed = TRUE]
    /\ EmailFrame

\* a variant of SendEmail: the transporter is read outside the try block
SendEmailUnguarded(options) ==
    /\ email.pc \in {"idle", "done"} /\ email.calls < MaxEmails
    /\ LET e == [email EXCEPT !.calls = @ + 1, !.options = options, !.mail = None,
                              !.mailOutcome = "none", !.outcome = "none",
                              !.result = FALSE, !.preview = None]
       IN  email' = IF email.transporter = "unset"
                      THEN [e EXCEPT !.pc = "done", !.outcome = "rejected"]
                    ELSE IF emailOptions(options) = None THEN EmailReturns(e, FALSE)
                    ELSE [e EXCEPT !.pc = "sendMail", !.mail = emailOptions(options),
                                   !.handed = @ + 1]
    /\ EmailFrame

\* sendEmail up to the await of transporter.sendMail: building emailOptions or
\* reading sendMail of an undefined transporter throws inside the try block
SendEmail(options) ==
    /\ email.pc \in {"idle", "done"} /\ email.calls < MaxEmails
    /\ LET e == [email EXCEPT !.calls = @ + 1, !.options = options, !.mail = None,
                              !.mailOutcome = "none", !.outcome = "none",
                              !.result = FALSE, !.preview = None]
       IN  email' = IF emailOptions(options) = None \/ email.transporter = "unset"
                      THEN EmailReturns(e, FALSE)
                    ELSE [e EXCEPT !.pc = "sendMail", !.mail = emailOptions(options),
                                   !.handed = @ + 1]
    /\ EmailFrame

\* sendEmail after sendMail resolved with info: outside production the preview
\* URL is logged
SendMailResolves(messageId) ==
    /\ email.pc = "sendMail"
    /\ LET previewUrl == IF messageId # None /\ messageId[1] # <<>>
                           THEN PreviewPrefix \o messageId[1]
                         ELSE PreviewUnavailable
           e == [email EXCEPT !.delivered = @ + 1, !.mailOutcome = "resolved",
                              !.preview = IF email.env # "production"
                                            THEN Some(previewUrl) ELSE None]
       IN  email' = EmailReturns(e, TRUE)
    /\ EmailFrame

\* sendEmail after sendMail rejected
SendMailRejects ==
    /\ email.pc = "sendMail"
    /\ email' = EmailReturns([email EXCEPT !.mailOutcome = "rejected"], FALSE)
    /\ EmailFrame

EmailEnvs == {"development", "test", "production"}

EmailHtmls == {None, Some(<<"<", "b", ">", "h", "i", "<", "/", "b", ">">>),
               Some(<<"a", "<", "b">>)}

EmailTexts == {None, Some(<<>>), Some(<<"h", "i">>)}

EmailOptionsGiven ==
    {NullEmailOptions} \cup {EmailOptions(h, t) : h \in EmailHtmls, t \in EmailTexts}

MessageIds == {None, Some(<<>>), Some(<<"m", "1">>)}

EmailNext ==
    \/ \E env \in EmailEnvs : EmailInit(env)
    \/ SetupDevTransportResolves
    \/ SetupDevTransportRejects
    \/ \E options \in EmailOptionsGiven : SendEmail(options)
    \/ \E messageId \in MessageIds : SendMailResolves(messageId)
    \/ SendMailRejects

EmailSpec == Init /\ [][EmailNext]_vars

(***************************************************************************)
(* The specification.                                                      *)
(***************************************************************************)
\* every step of a call in progress: a backend call returns or throws, a timer
\* fires, a stream yields, ends or throws
Step ==
    \/ \E candidate \in GoogleContents : GoogleAttemptReturns(candidate)
    \/ \E e \in ErrorTexts : GoogleAttemptThrows(e)
    \/ GoogleBackoffElapsed
    \/ GoogleStreamResume
    \/ GoogleStreamChunk
    \/ GoogleStreamReturn
    \/ \E resp \in OpenAIResponses : OpenAIGenerateReturns(resp)
    \/ \E e \in ErrorTexts : OpenAIGenerateThrows(e)
    \/ \E resp \in AnthropicResponses : AnthropicGenerateReturns(resp)
    \/ \E e \in ErrorTexts : AnthropicGenerateThrows(e)
    \/ OpenAIStreamCreated
    \/ \E e \in ErrorTexts, b \in BOOLEAN : OpenAIStreamCreateThrows(e, b)
    \/ \E c \in OpenAIStreamItems, b1 \in BOOLEAN, b2 \in BOOLEAN :
          OpenAIStreamNext(c, b1, b2)
    \/ \E e \in ErrorTexts, b \in BOOLEAN : OpenAIStreamThrows(e, b)
    \/ \E b1 \in BOOLEAN, b2 \in BOOLEAN : OpenAIStreamEnds(b1, b2)
    \/ AnthropicStreamCreated
    \/ \E e \in ErrorTexts, b \in BOOLEAN : AnthropicStreamCreateThrows(e, b)
    \/ \E c \in AnthropicStreamItems, b1 \in BOOLEAN, b2 \in BOOLEAN :
          AnthropicStreamNext(c, b1, b2)
    \/ \E e \in ErrorTexts, b \in BOOLEAN : AnthropicStreamThrows(e, b)
    \/ \E b1 \in BOOLEAN, b2 \in BOOLEAN : AnthropicStreamEnds(b1, b2)

\* the clock advances by a millisecond while a generateStream call is in progress
\* (no other method reads the clock)
Tick ==
    /\ op = "generateStream"
    /\ pc \notin {"idle", "done"}
    /\ now < MaxClock
    /\ now' = now + 1
    /\ UNCHANGED <<serviceVars, provider, op, params, pc, retries, delay, events, generated,
                   messages, system, accumulatedContent, totalPromptTokens,
                   totalCompletionTokens, items, sentChars, chunks, outcome, error,
                   failure, response>>

Next ==
    \/ \E p \in Providers, o \in {"generate", "generateStream"} :
          \E req \in Requests(p) : Invoke(p, o, req)
    \/ Step
    \/ Tick

Spec == Init /\ [][Next]_vars

\* a backend call returns or throws, a timer fires, a stream yields or ends:
\* a call in progress always takes its next step
FairSpec == Spec /\ WF_vars(Step)

(***************************************************************************)
(* Observations the properties are stated on.                              *)
(***************************************************************************)
Done == pc = "done"

StreamDone == Done /\ op = "generateStream"

Attempts == SelectSeq(events, LAMBDA ev : ev.kind = "attempt")

Waits == SelectSeq(events, LAMBDA ev : ev.kind = "wait")

FinalChunks == {i \in DOMAIN chunks : chunks[i].isFinal}

ErrorChunks == {i \in DOMAIN chunks : chunks[i].type = "error"}

\* the error texts that name a rate, quota or limit condition, by enumeration
RateLimitFlavored(errorMessage) == errorMessage \in {ErrQuota, ErrRate, ErrLimit}

RECURSIVE ConcatDeltas(_)
\* payload.text of the content_delta chunks, concatenated in emission order
ConcatDeltas(cs) ==
    IF Len(cs) = 0 THEN <<>>
    ELSE (IF cs[1].type = "content_delta" THEN cs[1].text ELSE <<>>)
         \o ConcatDeltas(Tail(cs))

(***************************************************************************)
(* C1: for every generateStream call of every adapter, whatever the        *)
(* backend output (empty output text included) and whether the call        *)
(* succeeds or fails, exactly one chunk passed to onChunk has isFinal =    *)
(* true, and it is the last chunk passed to onChunk.  Stated for the       *)
(* calls in which onChunk itself never throws.                             *)
(***************************************************************************)
C1_ExactlyOneFinalChunkLast ==
    (StreamDone /\ failure # "sink")
        => /\ Cardinality(FinalChunks) = 1
           /\ FinalChunks = {Len(chunks)}

(***************************************************************************)
(* C2: when the backend always fails with a rate-limit-flavored error,     *)
(* Google generate makes exactly 4 backend attempts (3 retries) and then   *)
(* fails with the 'Maximum retry limit reached' error, not with the        *)
(* backend's own error text.                                               *)
(***************************************************************************)
C2_RetryExhaustion ==
    ( /\ provider = "google" /\ op = "generate" /\ Done
      /\ \A i \in DOMAIN Attempts :
            ~Attempts[i].ok /\ RateLimitFlavored(Attempts[i].errorMessage) )
        => /\ Len(Attempts) = 4
           /\ outcome = "rejected"
           /\ error = GoogleApiErrorPrefix \o MaxRetryText

(***************************************************************************)
(* C3: when the backend fails with a rate-limit-flavored error exactly     *)
(* twice and then succeeds, Google generate returns the successful         *)
(* response on the third attempt, having waited exactly twice, first       *)
(* 1000 ms and then 2000 ms, each wait between the failed attempt and the  *)
(* next attempt.                                                           *)
(***************************************************************************)
FailedTwiceThenSucceeded ==
    /\ provider = "google" /\ op = "generate"
    /\ Len(Attempts) = 3
    /\ \A i \in 1..2 : ~Attempts[i].ok /\ RateLimitFlavored(Attempts[i].errorMessage)
    /\ Attempts[3].ok

C3_TwoFailuresThenSuccess ==
    FailedTwiceThenSucceeded
        => /\ Done /\ outcome = "resolved"
           /\ response # None
           /\ response[1].content = Attempts[3].content
           /\ [i \in DOMAIN events |-> events[i].kind]
                 = <<"attempt", "wait", "attempt", "wait", "attempt">>
           /\ [i \in DOMAIN Waits |-> Waits[i].ms] = <<1000, 2000>>

C3_Witness == FailedTwiceThenSucceeded /\ Done /\ Len(response[1].content) > 0

(***************************************************************************)
(* C4: the retry policy is the same in all adapters: OpenAI generate and   *)
(* Anthropic generate, like Google generate, retry a failure whose error   *)
(* text indicates a rate/quota/limit condition up to 3 times before        *)
(* failing; so a generate call that has failed on a rate-limit-flavored    *)
(* error has made 4 backend attempts.                                      *)
(***************************************************************************)
C4_RetryPolicyIdentical ==
    ( /\ op = "generate" /\ Done /\ outcome = "rejected"
      /\ RateLimitFlavored(Attempts[Len(Attempts)].errorMessage) )
        => Len(Attempts) = maxRetries + 1

(***************************************************************************)
(* C5: in Google generate a backend failure whose error text contains      *)
(* none of 'quota', 'rate', 'limit' (in any letter case) is never          *)
(* retried: no attempt and no wait follows it and the call fails, so a     *)
(* call whose first failure is of that kind fails after exactly one        *)
(* attempt with no backoff wait; and a wait (RETRYING) only ever follows   *)
(* a failure whose text contains one of those substrings.                  *)
(***************************************************************************)
C5_OnlyRateLimitRetried ==
    provider = "google" =>
        /\ \A i \in DOMAIN events :
              ( /\ events[i].kind = "attempt" /\ ~events[i].ok
                /\ ~RateLimitFlavored(events[i].errorMessage) )
                  => /\ i = Len(events)
                     /\ pc \notin {"g_attempt", "g_wait"}
                     /\ op = "generate" => (Done /\ outcome = "rejected")
        /\ \A i \in DOMAIN events :
              events[i].kind = "wait"
                  => /\ i > 1
                     /\ events[i - 1].kind = "attempt" /\ ~events[i - 1].ok
                     /\ RateLimitFlavored(events[i - 1].errorMessage)
        /\ pc = "g_wait" => (events # <<>> /\ events[Len(events)].kind = "wait")

C5_Witness ==
    /\ provider = "google" /\ op = "generate" /\ Done
    /\ Len(events) = 3
    /\ events[2].kind = "wait"
    /\ ~RateLimitFlavored(events[3].errorMessage) /\ ~events[3].ok

(***************************************************************************)
(* C6: every Google generate call terminates in SUCCEEDED or FAILED after  *)
(* at most 4 backend attempts and at most 3 backoff waits (1000 ms,        *)
(* 2000 ms, 4000 ms in that order), provided each backend call itself      *)
(* returns or throws; the attempt counter never exceeds 3 retries.         *)
(***************************************************************************)
GoogleGenerateRunning == provider = "google" /\ pc \in {"g_attempt", "g_wait"}

GoogleGenerateBounded ==
    provider = "google" =>
        /\ retries <= 3
        /\ Len(Attempts) <= 4
        /\ Len(Waits) <= 3
        /\ \A i \in DOMAIN Waits : Waits[i].ms = <<1000, 2000, 4000>>[i]
        /\ (op = "generate" /\ ~GoogleGenerateRunning)
              => (Done /\ outcome \in {"resolved", "rejected"})

C6_GoogleGenerateTerminates ==
    /\ []GoogleGenerateBounded
    /\ GoogleGenerateRunning ~> ~GoogleGenerateRunning

C6_Witness ==
    /\ provider = "google" /\ op = "generate" /\ Done
    /\ Len(Attempts) = 4 /\ Len(Waits) = 3 /\ retries = 3

(***************************************************************************)
(* C7: for any successful generateStream call of any adapter,              *)
(* concatenating payload.text of all content_delta chunks in the order     *)
(* they were passed to onChunk equals the content of the returned          *)
(* response.                                                               *)
(***************************************************************************)
C7_DeltasConcatenateToContent ==
    (StreamDone /\ outcome = "resolved")
        => ConcatDeltas(chunks) = response[1].content

C7_Witness ==
    /\ StreamDone /\ outcome = "resolved" /\ provider = "google"
    /\ Len(chunks) = 3 /\ Len(response[1].content) = 2 * chunkSize + 1

(***************************************************************************)
(* C8: on any failure during generateStream (the backend call fails, the   *)
(* iteration of the stream fails, or delivering a chunk raises), the       *)
(* adapter passes exactly one chunk of type 'error', with isFinal = true,  *)
(* to onChunk, passes no chunk after it, and then the call rejects.        *)
(***************************************************************************)
C8_ErrorChunkThenReject ==
    (StreamDone /\ failure # "none")
        => /\ Cardinality(ErrorChunks) = 1
           /\ ErrorChunks = {Len(chunks)}
           /\ chunks[Len(chunks)].isFinal
           /\ outcome = "rejected"

C8_Witness ==
    /\ StreamDone /\ failure = "sink"
    /\ Len(chunks) = 3 /\ chunks[3].type = "error" /\ chunks[3].error = SinkErrorText

(***************************************************************************)
(* C9: the stream and the returned promise agree: a generateStream call    *)
(* rejects if and only if a chunk of type 'error' was passed to onChunk    *)
(* during that call, and it resolves if and only if the final chunk was of *)
(* type 'content_delta'.                                                   *)
(***************************************************************************)
C9_StreamAndPromiseAgree ==
    StreamDone
        => /\ outcome = "rejected" <=> ErrorChunks # {}
           /\ outcome = "resolved"
                 <=> (chunks # <<>> /\ chunks[Len(chunks)].type = "content_delta")

(***************************************************************************)
(* C10: every successful generateStream call ends with a final chunk       *)
(* (isFinal = true) whose metadata.usage equals the usage of the response  *)
(* the call returns; no non-final chunk carries usage.                     *)
(***************************************************************************)
C10_FinalChunkCarriesUsage ==
    (StreamDone /\ outcome = "resolved")
        => /\ chunks # <<>>
           /\ chunks[Len(chunks)].isFinal
           /\ chunks[Len(chunks)].usage = Some(response[1].usage)
           /\ \A i \in DOMAIN chunks : ~chunks[i].isFinal => chunks[i].usage = None

(***************************************************************************)
(* C11.  Within one generateStream call, every chunk passed to onChunk has *)
(* a chunkId different from the chunkId of every other chunk of that call, *)
(* also when several chunks are passed within the same millisecond of the  *)
(* clock.                                                                  *)
(***************************************************************************)
C11_ChunkIdsDistinct ==
    \A i \in DOMAIN chunks : \A j \in DOMAIN chunks :
        i # j => chunks[i].chunkId # chunks[j].chunkId

(***************************************************************************)
(* C12.  Google generateStream calls generate exactly once per call and    *)
(* passes no chunk to onChunk before generate has completed; it then       *)
(* delivers the text in position order as ceil(len/10) chunks, the k-th    *)
(* chunk (from 0) being the characters [10k, 10k+10) of the text, so that  *)
(* every chunk but possibly the last has exactly 10 characters.            *)
(***************************************************************************)
GoogleStreaming == provider = "google" /\ op = "generateStream"

\* the characters [10k, 10k+10) of text
TenCharactersFrom(text, k) ==
    SubSeq(text, 10 * k + 1, IF 10 * k + 10 < Len(text) THEN 10 * k + 10 ELSE Len(text))

GoogleChunksInPosition ==
    GoogleStreaming =>
        /\ generated = None => chunks = <<>>
        /\ pc \in {"g_attempt", "g_wait", "gs_resume"} => chunks = <<>>
        /\ Done => generated # None
        /\ \A i \in DOMAIN chunks :
              chunks[i].type = "content_delta" =>
                /\ generated # None /\ generated[1].ok
                /\ chunks[i].text =
                       TenCharactersFrom(generated[1].response[1].content, i - 1)
                /\ \A j \in 1..(i - 1) : chunks[j].type = "content_delta"
        /\ (Done /\ outcome = "resolved") =>
              /\ Len(chunks) = (Len(response[1].content) + 9) \div 10
              /\ \A i \in 1..(Len(chunks) - 1) : Len(chunks[i].text) = 10

\* once generate has settled, the call makes no further backend attempt and the
\* result of generate is not replaced
GenerateCalledOnce ==
    (GoogleStreaming /\ generated # None /\ pc \notin {"idle", "done"})
        => (generated' = generated /\ events' = events)

C12_GoogleRechunking == []GoogleChunksInPosition /\ [][GenerateCalledOnce]_vars

C12_Witness ==
    /\ GoogleStreaming /\ Done /\ outcome = "resolved"
    /\ Len(Attempts) = 2
    /\ Len(chunks) = 3 /\ Len(chunks[1].text) = 10 /\ Len(chunks[3].text) = 1

(***************************************************************************)
(* C13.  For every message sequence, each adapter's formatMessages         *)
(* (together with the system field the adapter sends) preserves the        *)
(* relative order of the input messages and never drops a message with     *)
(* role SYSTEM: the text of every SYSTEM message reaches the backend       *)
(* request as a system-role message or in the dedicated system field, in   *)
(* generate as well as in generateStream.                                  *)
(***************************************************************************)
\* the text of the i-th message of a prompt
MessageText(i) == <<"m", Digit(i)>>

\* a native message of adapter p has the system role
IsSystemNative(p, m) == IF p = "google" THEN m.author = "system" ELSE m.role = "system"

\* a native message of adapter p has the user role
IsUserNative(p, m) == IF p = "google" THEN m.author \in {"user", "none"} ELSE m.role = "user"

\* the input positions of the native messages that carry the text of an input message
PositionsSent(out, n) ==
    LET carried == SelectSeq(out, LAMBDA m : \E i \in 1..n : m.content = MessageText(i))
    IN  [k \in DOMAIN carried |-> CHOOSE i \in 1..n : carried[k].content = MessageText(i)]

ArrayRequestBuilt == lastCall.name = "request" /\ lastCall.arg.params.prompt.isArray

C13_SystemNeverDropped ==
    ArrayRequestBuilt =>
        LET p == lastCall.arg.provider
            msgs == lastCall.arg.params.prompt.messages
            sent == lastCall.result
            positions == PositionsSent(sent.messages, Len(msgs))
        IN  /\ \A k \in DOMAIN positions : \A l \in DOMAIN positions :
                  k < l => positions[k] < positions[l]
            /\ \A i \in DOMAIN msgs :
                  msgs[i].role = MessageRole_SYSTEM =>
                    \/ \E k \in DOMAIN sent.messages :
                          /\ IsSystemNative(p, sent.messages[k])
                          /\ sent.messages[k].content = MessageText(i)
                    \/ sent.system = Some(MessageText(i))

(***************************************************************************)
(* C14.  For every message with role TOOL, each adapter's formatMessages   *)
(* outputs exactly one native message for it: a tool-role message for      *)
(* OpenAI, a user-role message carrying its text for Anthropic and Google; *)
(* a TOOL message is never omitted from the output.                        *)
(***************************************************************************)
FormatMessagesCalled == lastCall.name = "formatMessages"

C14_ToolMessageMapped ==
    FormatMessagesCalled =>
        LET p == lastCall.arg.provider
            msgs == lastCall.arg.messages
            out == lastCall.result
        IN  \A i \in DOMAIN msgs :
              msgs[i].role = MessageRole_TOOL =>
                LET images == {k \in DOMAIN out : out[k].content = MessageText(i)}
                IN  /\ Cardinality(images) = 1
                    /\ \A k \in images :
                          IF p = "openai" THEN out[k].role = "tool"
                          ELSE IsUserNative(p, out[k])

(***************************************************************************)
(* C15.  For every request whose prompt is a single string, with or        *)
(* without a systemPrompt, every adapter's generate sends the prompt as    *)
(* exactly one user message, and a supplied systemPrompt is sent to the    *)
(* backend too (as a leading system message or in the dedicated system     *)
(* field), never omitted from the request.                                 *)
(***************************************************************************)
StringRequestBuilt ==
    /\ lastCall.name = "request"
    /\ lastCall.arg.op = "generate"
    /\ ~lastCall.arg.params.prompt.isArray

C15_StringPromptRequest ==
    StringRequestBuilt =>
        LET p == lastCall.arg.provider
            req == lastCall.arg.params
            sent == lastCall.result
            users == {k \in DOMAIN sent.messages : IsUserNative(p, sent.messages[k])}
        IN  /\ Cardinality(users) = 1
            /\ \A k \in users : sent.messages[k].content = req.prompt.text
            /\ \A k \in DOMAIN sent.messages :
                  k \in users \/ (k = 1 /\ IsSystemNative(p, sent.messages[k]))
            /\ Truthy(req.systemPrompt) =>
                  \/ /\ IsSystemNative(p, sent.messages[1])
                     /\ sent.messages[1].content = req.systemPrompt[1]
                  \/ sent.system = req.systemPrompt

(***************************************************************************)
(* C16.  getProviderForModel classifies a model id only by its prefix:     *)
(* with all three adapters registered, an id starting with 'gpt' yields    *)
(* the OpenAI adapter, 'claude' the Anthropic adapter, 'gemini' the Google *)
(* adapter, and any other id yields null; the result is the same for the   *)
(* same id on every call, whatever the order of the earlier calls.         *)
(***************************************************************************)
\* the family of each model id that is asked for, by enumeration
FamilyOf(modelId) ==
    CASE modelId = MODEL_IDS_GPT_4 -> "openai"
      [] modelId = MODEL_IDS_CLAUDE_3_HAIKU -> "anthropic"
      [] modelId = MODEL_IDS_GEMINI_PRO -> "google"
      [] OTHER -> "none"

\* the credential of a family in a configuration
CredentialOf(cfg, family) ==
    CASE family = "openai" -> cfg.openaiApiKey
      [] family = "anthropic" -> cfg.anthropicApiKey
      [] family = "google" -> cfg.geminiApiKey
      [] OTHER -> None

\* a credential is a string that is not empty
Present(credential) == credential # None /\ credential # Some(<<>>)

AllThreeRegistered ==
    /\ service = "ready"
    /\ \A family \in {"openai", "anthropic", "google"} :
          Present(CredentialOf(builtFrom, family))

C16_ResolveByPrefix ==
    /\ AllThreeRegistered =>
          \A r \in resolved :
              IF FamilyOf(r[1]) = "none" THEN r[2] = None
              ELSE /\ r[2] # None
                   /\ r[2][1].kind = FamilyOf(r[1])
                   /\ Some(r[2][1].apiKey) = CredentialOf(builtFrom, FamilyOf(r[1]))
    /\ \A r1 \in resolved : \A r2 \in resolved : r1[1] = r2[1] => r1[2] = r2[2]

C16_Witness ==
    /\ AllThreeRegistered
    /\ config # builtFrom
    /\ {r[1] : r \in resolved} = ModelIdsAsked
    /\ lastCall.name = "getProviderForModel" /\ lastCall.arg = MODEL_IDS_GPT_4

(***************************************************************************)
(* C17.  When a provider's credential was absent at construction,          *)
(* getProviderForModel for any model id of that provider's prefix returns  *)
(* null (a resolution failure, not an exception), and no generate call is  *)
(* made on any adapter as part of the resolution.                          *)
(***************************************************************************)
ResolvedUnregistered ==
    /\ lastCall.name = "getProviderForModel"
    /\ FamilyOf(lastCall.arg) # "none"
    /\ ~Present(CredentialOf(builtFrom, FamilyOf(lastCall.arg)))

C17_MissingCredentialResolvesToNull ==
    ResolvedUnregistered =>
        /\ lastCall.result = None
        /\ events = <<>> /\ pc = "idle" /\ outcome = "none"

C17_Witness ==
    /\ ResolvedUnregistered
    /\ providers # <<>>
    /\ Present(CredentialOf(config, FamilyOf(lastCall.arg)))

(***************************************************************************)
(* C18.  After the construction of a ModelService with any combination of  *)
(* present and absent credentials, construction has not thrown and         *)
(* getAvailableProviders returns exactly the providers whose credential is *)
(* present (not empty) in the configuration.                               *)
(***************************************************************************)
ProvidersWithCredential ==
    {family \in {"openai", "anthropic", "google"} : Present(CredentialOf(builtFrom, family))}

RegistryUntouched == service = "ready" => providers' = providers

\* the registry holds what the configuration held at construction, whatever the
\* configuration object holds now
RegistryOfConstruction ==
    service = "ready" =>
        /\ {providers[i].key : i \in DOMAIN providers} = ProvidersWithCredential
        /\ \A i \in DOMAIN providers :
              /\ providers[i].value.kind = providers[i].key
              /\ Some(providers[i].value.apiKey) = CredentialOf(builtFrom, providers[i].key)

C19_RegistryReadOnly == [][RegistryUntouched]_vars /\ []RegistryOfConstruction

C19_Witness ==
    /\ service = "ready"
    /\ config # builtFrom
    /\ Cardinality(resolved) >= 2
    /\ lastCall.name = "isProviderAvailable"
    /\ providers # <<>>

(***************************************************************************)
(* C20.  An adapter's isAvailable returns true if and only if the          *)
(* credential string given at construction is not empty, it returns the    *)
(* same value on every call for the adapter's lifetime, and consequently   *)
(* ModelService.isProviderAvailable(p) is true exactly when p is in        *)
(* getAvailableProviders().                                                *)
(***************************************************************************)
AvailabilityAnswers ==
    /\ lastCall.name = "isAvailable" =>
          /\ lastCall.arg = standalone[1]
          /\ lastCall.result = (Len(standalone[1].apiKey) > 0)
    /\ lastCall.name = "isProviderAvailable" =>
          lastCall.result = (\E i \in DOMAIN providers : providers[i].key = lastCall.arg)

\* an adapter keeps the credential it was constructed with
CredentialKept == standalone # None => standalone' = standalone

C20_AvailabilityByCredential == []AvailabilityAnswers /\ [][CredentialKept]_vars

C20_Witness ==
    /\ lastCall.name = "isAvailable"
    /\ standalone[1].apiKey = <<>>
    /\ lastCall.result = FALSE
    /\ service = "ready" /\ providers # <<>>

(***************************************************************************)
(* C24.  Google generate (its backend reports no token counts) returns     *)
(* promptTokens equal to the sum of countTokens over the normalized text   *)
(* of every input message (or countTokens of the single prompt string) and *)
(* completionTokens equal to countTokens of the output text; OpenAI and    *)
(* Anthropic generate return the backend's own prompt and completion       *)
(* counts whenever the backend reports them.                               *)
(***************************************************************************)
\* ceil(n / 4), by its defining inequalities
IsCeilOfQuarter(tokens, n) == 4 * tokens >= n /\ 4 * (tokens - 1) < n

RECURSIVE QuarterTokensOfMessages(_)
\* the sum over the messages of ceil(length of the normalized text / 4)
QuarterTokensOfMessages(msgs) ==
    IF msgs = <<>> THEN 0
    ELSE LET n == Len(GoogleGetTextFromContentBlocks(msgs[1].content))
         IN  (CHOOSE t \in 0..n : IsCeilOfQuarter(t, n))
             + QuarterTokensOfMessages(Tail(msgs))

GenerateResolved == op = "generate" /\ Done /\ outcome = "resolved"

C24_UsageOfGenerate ==
    GenerateResolved =>
        LET usage == response[1].usage
            last == Attempts[Len(Attempts)]
        IN  CASE provider = "google" ->
                   /\ IF params.prompt.isArray
                        THEN usage.promptTokens =
                                 QuarterTokensOfMessages(params.prompt.messages)
                        ELSE IsCeilOfQuarter(usage.promptTokens, Len(params.prompt.text))
                   /\ IsCeilOfQuarter(usage.completionTokens, Len(response[1].content))
                   /\ response[1].content = last.content
              [] provider = "openai" ->
                   last.returned[1].usage # None =>
                     /\ usage.promptTokens = last.returned[1].usage[1].prompt_tokens
                     /\ usage.completionTokens = last.returned[1].usage[1].completion_tokens
              [] OTHER ->
                   last.returned[1].usage # None =>
                     /\ usage.promptTokens = last.returned[1].usage[1].input_tokens
                     /\ usage.completionTokens = last.returned[1].usage[1].output_tokens

C24_Witness ==
    /\ GenerateResolved /\ provider = "google"
    /\ params.prompt.isArray
    /\ response[1].usage.promptTokens > 2
    /\ response[1].usage.completionTokens = 6

(***************************************************************************)
(* C29.  Every response returned by generate or generateStream of any      *)
(* adapter satisfies usage.totalTokens = usage.promptTokens +              *)
(* usage.completionTokens, whatever counts (a backend-reported total        *)
(* included) the backend returns.                                          *)
(***************************************************************************)
C29_TotalIsSum ==
    (Done /\ outcome = "resolved") =>
        response[1].usage.totalTokens =
            response[1].usage.promptTokens + response[1].usage.completionTokens

(***************************************************************************)
(* C27.  Every backend failure in generate of any adapter is rethrown,     *)
(* never swallowed: the call rejects with an error whose message is the    *)
(* provider-qualified prefix ('OpenAI API Error: ', 'Anthropic API         *)
(* Error: ', 'Google AI API Error: ') followed by the raw text of the      *)
(* backend error, and generate never resolves with a response after a      *)
(* backend failure that was not retried.                                   *)
(***************************************************************************)
\* the prefix of each adapter's generate, letter by letter
ApiErrorPrefixOf(p) ==
    CASE p = "openai" ->
           <<"O","p","e","n","A","I"," ","A","P","I"," ","E","r","r","o","r",":"," ">>
      [] p = "anthropic" ->
           <<"A","n","t","h","r","o","p","i","c"," ","A","P","I"," ","E","r","r","o","r",
             ":"," ">>
      [] OTHER ->
           <<"G","o","o","g","l","e"," ","A","I"," ","A","P","I"," ","E","r","r","o","r",
             ":"," ">>

\* the last backend attempt of a generate call failed and no wait follows it
FailedUnretried ==
    /\ op = "generate"
    /\ events # <<>>
    /\ events[Len(events)].kind = "attempt"
    /\ ~events[Len(events)].ok

KnownBlockTypes ==
    {ContentBlockType_TEXT, ContentBlockType_CODE, ContentBlockType_TOOL_USE,
     ContentBlockType_TOOL_RESULT, ContentBlockType_IMAGE}

RenderingByType(block) ==
    CASE block.type = ContentBlockType_TEXT -> block.text
      [] block.type = ContentBlockType_CODE ->
           Fence \o block.language \o NL \o block.code \o NL \o Fence
      [] block.type = ContentBlockType_TOOL_USE ->
           <<"[","T","o","o","l"," ","u","s","e",":"," ">> \o block.toolName \o <<"]">>
      [] block.type = ContentBlockType_TOOL_RESULT ->
           <<"[","T","o","o","l"," ","r","e","s","u","l","t",":"," ">>
             \o JSONstringify(block.result) \o <<"]">>
      [] block.type = ContentBlockType_IMAGE ->
           <<"[","I","m","a","g","e",":"," ">> \o block.caption \o <<"]">>
      [] OTHER ->
           <<"[">> \o (IF block.type # <<>> THEN block.type
                        ELSE <<"u","n","k","n","o","w","n">>)
             \o <<" ","c","o","n","t","e","n","t","]">>

GetTextCalled == lastCall.name = "getTextFromContentBlocks"

C22_BlocksRenderByType ==
    GetTextCalled =>
        lastCall.result =
            join([i \in 1..Len(lastCall.arg.blocks) |->
                     RenderingByType(lastCall.arg.blocks[i])], NL)

(***************************************************************************)
(* C23: the getTextFromContentBlocks of the three adapters return the same *)
(* string for every sequence of blocks.                                    *)
(***************************************************************************)
C23_AdaptersRenderAlike ==
    GetTextCalled =>
        /\ lastCall.result = OpenAIGetTextFromContentBlocks(lastCall.arg.blocks)
        /\ lastCall.result = AnthropicGetTextFromContentBlocks(lastCall.arg.blocks)
        /\ lastCall.result = GoogleGetTextFromContentBlocks(lastCall.arg.blocks)

C23_Witness ==
    /\ GetTextCalled
    /\ lastCall.arg.provider = "anthropic"
    /\ Len(lastCall.arg.blocks) = 2
    /\ lastCall.arg.blocks[1] = TextBlock(<<>>)
    /\ lastCall.arg.blocks[2].type = ContentBlockType_TOOL_RESULT

(***************************************************************************)
(* C25: calculateCost is never negative, is 0 for no tokens, does not      *)
(* decrease when either token count grows, and prices a model id it does   *)
(* not know at the default tier of its adapter.                            *)
(***************************************************************************)
CalculateCostCalled == lastCall.name = "calculateCost"

HasPrice(p, modelId) ==
    CASE p = "openai" -> OpenAICosts(modelId) # None
      [] p = "anthropic" -> AnthropicCosts(modelId) # None
      [] OTHER -> GoogleCosts(modelId) # None

DefaultTier(p) ==
    CASE p = "openai" -> MODEL_IDS_GPT_3_5_TURBO
      [] p = "anthropic" -> MODEL_IDS_CLAUDE_3_HAIKU
      [] OTHER -> MODEL_IDS_GEMINI_PRO

CountTokensCalled == lastCall.name = "countTokens"

\* r is the least integer with r >= num / den
IsCeiling(r, num, den) == r * den >= num /\ (r - 1) * den < num

C26_CountTokensCeiling ==
    CountTokensCalled =>
        LET a == lastCall.arg
            n == Len(a.text)
        IN
        /\ IF a.provider = "anthropic" THEN IsCeiling(lastCall.result, 2 * n, 9)
                                       ELSE IsCeiling(lastCall.result, n, 4)
        /\ lastCall.result = 0 <=> a.text = <<>>
        /\ \A shorter \in 0..n :
              CountTokens(a.provider, SubSeq(a.text, 1, shorter)) <= lastCall.result

C26_Witness ==
    /\ CountTokensCalled
    /\ lastCall.arg.provider = "anthropic"
    /\ Len(lastCall.arg.text) = 10
    /\ lastCall.result = 3

(***************************************************************************)
(* C30: for the same request, generate and generateStream of an adapter    *)
(* send the same messages and the same system prompt to the backend.       *)
(***************************************************************************)
RequestBuilt == lastCall.name = "request"

OtherMethod(o) == IF o = "generate" THEN "generateStream" ELSE "generate"

C30_BothMethodsSendAlike ==
    RequestBuilt =>
        lastCall.result =
            RequestSent(lastCall.arg.provider, OtherMethod(lastCall.arg.op),
                        lastCall.arg.params)

(***************************************************************************)
(* C28: ModelServiceImplementation.generate takes the mock path when no    *)
(* credential is configured: a request for provider 'anthropic' with no    *)
(* client resolves with the mock content instead of failing, and a request *)
(* served by the client never returns the mock content.                    *)
(***************************************************************************)
AdHocDone == adhoc.service = "ready" /\ adhoc.pc = "done"

C28_MockWhenNoCredential ==
    AdHocDone =>
        /\ (adhoc.params.provider = PROVIDERS_ANTHROPIC /\ ~adhoc.anthropic
               /\ adhoc.params.messages # <<>>) =>
              /\ adhoc.outcome = "resolved"
              /\ adhoc.fallback
              /\ adhoc.content = mockContent(adhoc.params)
        /\ (adhoc.params.provider = PROVIDERS_ANTHROPIC /\ adhoc.anthropic) =>
              /\ ~adhoc.fallback
              /\ adhoc.outcome = "resolved" => adhoc.content # mockContent(adhoc.params)

(***************************************************************************)
(* C21: calls in progress at once on an adapter do not interfere: in every *)
(* interleaving the retry counter, the backoff delay and the accumulated   *)
(* content of a call are determined by the outcomes of its own backend,    *)
(* and its onChunk receives only chunks that carry its own streamId.       *)
(***************************************************************************)
RECURSIVE TwoToThe(_)
TwoToThe(n) == IF n = 0 THEN 1 ELSE 2 * TwoToThe(n - 1)

\* the backoff waits of call c that have elapsed
WaitsElapsed(c) ==
    Cardinality({i \in DOMAIN calls[c].events : calls[c].events[i].kind = "wait"})
      - (IF calls[c].pc = "wait" THEN 1 ELSE 0)

RECURSIVE DeltasOf(_)
\* the content the stream of a call yielded, from its events
DeltasOf(evs) ==
    IF evs = <<>> THEN <<>>
    ELSE (IF Head(evs).kind = "delta" THEN Head(evs).content ELSE <<>>)
           \o DeltasOf(Tail(evs))

RECURSIVE TextsOf(_)
\* the text of the content chunks that are not final, in order
TextsOf(received) ==
    IF received = <<>> THEN <<>>
    ELSE (IF Head(received).type = "content_delta" /\ ~Head(received).isFinal
            THEN Head(received).text ELSE <<>>)
           \o TextsOf(Tail(received))

C21_CallsDoNotInterfere ==
    \A c \in CallIds :
       /\ calls[c].op = "generate" =>
             /\ calls[c].retries = WaitsElapsed(c)
             /\ calls[c].delay = initialDelay * TwoToThe(calls[c].retries)
       /\ calls[c].op = "generateStream" =>
             /\ calls[c].accumulatedContent = DeltasOf(calls[c].events)
             /\ TextsOf(calls[c].received) = DeltasOf(calls[c].events)
             /\ \A i \in DOMAIN calls[c].received :
                   calls[c].received[i].streamId = calls[c].streamId

\* two generate calls on the Google adapter in progress at once, one after two
\* waits, the other in its first wait
C21_Witness ==
    /\ calls[1].op = "generate" /\ calls[1].pc = "attempt" /\ calls[1].retries = 2
    /\ calls[2].op = "generate" /\ calls[2].pc = "wait" /\ calls[2].retries = 0

(***************************************************************************)
(* C31: the generateStream of BaseModelProvider calls generate once; when  *)
(* generate resolves it passes exactly one chunk to onChunk (content_delta,*)
(* final, its text the whole content of the response, its metadata the     *)
(* usage of the response); when generate rejects it passes no chunk and    *)
(* rejects with the error of generate.                                     *)
(***************************************************************************)
BaseDone == base.pc = "done"

C31_BaseStreamIsOneChunk ==
    /\ base.pc # "idle" => base.generateCalls = 1
    /\ base.pc = "generate" => base.chunks = <<>>
    /\ (BaseDone /\ base.outcome = "resolved") =>
          /\ Len(base.chunks) = 1
          /\ base.chunks[1].type = "content_delta"
          /\ base.chunks[1].isFinal
          /\ base.chunks[1].text = base.response[1].content
          /\ base.chunks[1].usage = base.response[1].usage
          /\ base.chunks[1].streamId = base.streamId
    /\ (BaseDone /\ base.outcome = "rejected" /\ base.error # SinkErrorText) =>
          /\ base.chunks = <<>>
          /\ base.error \in ErrorTexts
          /\ base.response = None

C31_Witness ==
    /\ BaseDone /\ base.outcome = "resolved"
    /\ base.requestId = None
    /\ base.chunks[1].text = Text(chunkSize + 2)
    /\ base.chunks[1].chunkId.streamId = base.streamId

(***************************************************************************)
(* C32: in initializeProviders the registration of each provider is        *)
(* independent of the others: when the constructor of one adapter throws,  *)
(* the construction of the ModelService does not throw and every other     *)
(* provider whose credential is present is registered.                     *)
(***************************************************************************)
ConstructedWhere == service = "ready" /\ builtFrom = config

\* the adapter whose constructor threw in the construction, or "none"
ThrowerOfConstruction ==
    IF lastCall.name = "constructor" THEN lastCall.arg.thrower ELSE "none"

C32_RegistrationsIndependent ==
    (ConstructedWhere /\ lastCall.name = "constructor") =>
        /\ lastCall.result = "constructed"
        /\ \A family \in ProvidersWithCredential :
              family # ThrowerOfConstruction =>
                  family \in {providers[i].key : i \in DOMAIN providers}

(***************************************************************************)
(* C33: CacheService gates set, get, delete, exists and clear on the       *)
(* connection state: called when the last connection event was 'error' or  *)
(* 'end', or before any 'connect' or 'ready', or without a Redis client,   *)
(* set returns false, get returns null and counts one miss, delete and     *)
(* exists return false and clear returns 0, and no Redis command is sent;  *)
(* called after a later 'connect' or 'ready', they reach Redis again.      *)
(***************************************************************************)
GatedOperations == {"set", "get", "delete", "exists", "clear"}

\* a step in which an operation of the CacheService is called
CacheCallStep ==
    /\ CacheIdle
    /\ cache'.pc # "idle"
    /\ cache'.link = cache.link
    /\ cache'.store = cache.store

Disconnected ==
    ~cache.redis \/ cache.lastEvent \in {"none", "error", "end"}

\* the result of a gated operation that did not reach Redis
ReturnsSafeDefault(c) ==
    CASE c.op.name = "get" -> c.result = NullValue
      [] c.op.name = "clear" -> c.result = 0
      [] OTHER -> c.result = FALSE

GateStep ==
    (CacheCallStep /\ cache'.op.name \in GatedOperations) =>
        /\ Disconnected =>
              /\ cache'.pc = "done" /\ cache'.outcome = "returned"
              /\ ~cache'.issued
              /\ ReturnsSafeDefault(cache')
              /\ cache'.hits = cache.hits
              /\ cache'.misses = cache.misses + (IF cache'.op.name = "get" THEN 1 ELSE 0)
        /\ (cache.redis /\ cache.lastEvent \in {"connect", "ready"}) =>
              \/ cache'.issued
              \/ cache'.op.name = "set" /\ cache'.op.value.t = "undefined"

C33_GatedOnConnection == [][GateStep]_vars

C33_Witness ==
    /\ cache.service = "ready" /\ cache.pc = "done"
    /\ cache.op.name = "get" /\ cache.gated /\ ~cache.issued
    /\ cache.lastEvent = "error"
    /\ cache.hits = 1 /\ cache.misses = 1

(***************************************************************************)
(* C34: every get increments exactly one of hits and misses by exactly     *)
(* one, hits if and only if it returns a value that is not null; this      *)
(* includes a get whose entry cannot be parsed or decompressed.            *)
(***************************************************************************)
GetReturned == cache.service = "ready" /\ cache.pc = "done" /\ cache.op.name = "get"

C34_GetCountsOnce ==
    GetReturned =>
        /\ (cache.hits - cache.hitsBefore) + (cache.misses - cache.missesBefore) = 1
        /\ cache.hits = cache.hitsBefore + 1 <=> cache.result # NullValue

(***************************************************************************)
(* C35: while connected and before the entry expires, get(k) after a set   *)
(* of k that succeeded, with no set, delete or clear of k in between,      *)
(* returns a value equal to the one set, below and above the compression   *)
(* threshold and for compress true, false or unset; set stores options.ttl *)
(* as the TTL, or 3600 seconds when no ttl is given.                       *)
(***************************************************************************)
\* the entry of the last set of key k that succeeded is still in Redis
StillWritten(k) == cache.service = "ready" /\ cache.written[k] # None

C35_GetReturnsWhatWasSet ==
    /\ (GetReturned /\ cache.issued /\ ~cache.threw /\ StillWritten(cache.op.key)) =>
          cache.result = cache.written[cache.op.key][1].value
    /\ \A k \in CacheKeys :
          StillWritten(k) =>
              cache.store[k][1].ttl =
                  (IF cache.written[k][1].ttl = None THEN DEFAULT_TTL
                   ELSE cache.written[k][1].ttl[1])

(***************************************************************************)
(* C36: no public operation of the CacheService throws or rejects, whether *)
(* Redis is not configured, disconnected or failing on every command: each *)
(* returns its safe default (set false, get null, delete false, clear 0,   *)
(* exists false, getStats the current hits and misses, healthCheck         *)
(* 'disabled' or 'unhealthy', close nothing), and an initial connection    *)
(* that failed leaves the service usable with isConnected = false.         *)
(***************************************************************************)
CacheOperationDone == cache.service = "ready" /\ cache.pc = "done"

\* the operation could not be served by Redis
NotServed == cache.gated \/ cache.threw \/ ~cache.redis

SafeDefaultReturned ==
    CASE cache.op.name \in {"set", "delete", "exists"} -> cache.result = FALSE
      [] cache.op.name = "get" -> cache.result = NullValue
      [] cache.op.name = "clear" -> cache.result = 0
      [] cache.op.name = "getStats" ->
           cache.result = CacheStats(cache.hits, cache.misses, 0, 0, 0)
      [] cache.op.name = "healthCheck" ->
           cache.result = (IF cache.redis THEN "unhealthy" ELSE "disabled")
      [] cache.op.name = "close" -> cache.result = "void"
      [] OTHER -> TRUE

C36_CacheNeverThrows ==
    /\ cache.service = "ready" => cache.outcome \in {"none", "returned"}
    /\ (CacheOperationDone /\ NotServed) => SafeDefaultReturned
    /\ cache.link = "failed" => cache.service = "ready" /\ ~cache.isConnected

C36_Witness ==
    /\ CacheOperationDone
    /\ cache.op.name = "getStats" /\ cache.threw
    /\ cache.result.hits = 1 /\ cache.result.misses = 1 /\ cache.result.hitRate = 0

(***************************************************************************)
(* C37: EmailService.sendEmail never throws, however it interleaves with   *)
(* the initialization: called before init, after init while the setup of   *)
(* the development transport has not completed, or after that setup        *)
(* failed, it returns false and sends nothing; once the transporter is set *)
(* it returns true exactly when the sendMail call succeeds.                *)
(***************************************************************************)
\* a step in which sendEmail is called
SendEmailStep ==
    /\ email.pc \in {"idle", "done"}
    /\ email'.calls = email.calls + 1

SendEmailReturned == email.pc = "done"

SendEmailInvariant ==
    /\ email.outcome \in {"none", "returned"}
    /\ SendEmailReturned => (email.result <=> email.mailOutcome = "resolved")
    /\ email.delivered <= email.handed
    /\ email.transporter = "unset" => email.handed = 0

SendEmailWithoutTransporter ==
    (SendEmailStep /\ email.transporter = "unset") =>
        /\ email'.pc = "done" /\ email'.outcome = "returned"
        /\ email'.result = FALSE
        /\ email'.handed = email.handed /\ email'.mail = None

C37_SendEmailNeverThrows ==
    [](SendEmailInvariant) /\ [][SendEmailWithoutTransporter]_vars

C37_Witness ==
    /\ SendEmailReturned /\ email.calls = 2
    /\ email.env = "development" /\ email.setups > 0 /\ email.setupFailed
    /\ email.transporter = "unset"
    /\ email.options.given /\ email.options.html # None
    /\ email.outcome = "returned" /\ email.result = FALSE /\ email.handed = 0


====
